---------------------------- MODULE Spec2Model ----------------------------
(***************************************************************************)
(* Model of the type-builder core of idalib (idalib/src/types/builder.rs)  *)
(* and of the type catalog it drives through the bridge declared in        *)
(* idalib-sys/src/types_bridge.rs.                                         *)
(*                                                                         *)
(* A caller composes a builder with chained configuration calls and        *)
(* submits it with build(); build() validates locally and then issues a    *)
(* sequence of catalog calls.  Every catalog call is one step of the       *)
(* model and is appended, with its arguments and its answer, to `log`.     *)
(* The catalog is the C++ side of the bridge; its answers are chosen       *)
(* nondeterministically (failure sentinel or success).                     *)
(*                                                                         *)
(* Machine integers keep their width.  TLC's integers are 32-bit signed,   *)
(* so a u32 is a pair <<hi, lo>> and an i64 a 4-tuple of 16-bit limbs      *)
(* (most significant first, two's complement bit pattern).                 *)
(***************************************************************************)
EXTENDS Integers, Sequences, FiniteSets, TLC

\* ------------------------------------------------------------------ bounds

\* Configuration calls made on one builder before it is submitted.
MaxCalls == 2

\* Submissions one caller makes one after the other.
MaxBuilds == 2

\* ------------------------------------------------------- machine integers

\* One limb holds 16 bits.
Limb == 65536

LimbMax == Limb - 1

\* u32 values as <<hi, lo>>.
U32(hi, lo) == <<hi, lo>>

U32Lt(a, b) == a[1] < b[1] \/ (a[1] = b[1] /\ a[2] < b[2])

U32Le(a, b) == a = b \/ U32Lt(a, b)

\* The mathematical sum of two u32 values: <<carry, hi, lo>>.
U32TrueSum(a, b) ==
    LET lo == a[2] + b[2]
        hi == a[1] + b[1] + (lo \div Limb)
    IN  <<hi \div Limb, hi % Limb, lo % Limb>>

\* `a + b` on u32 overflows when the true sum needs a 33rd bit.
U32AddOverflows(a, b) == U32TrueSum(a, b)[1] # 0

\* `a + b` on u32 as a build without overflow checks computes it.
U32WrappingAdd(a, b) == LET s == U32TrueSum(a, b) IN <<s[2], s[3]>>

\* Comparison of 33-bit values <<carry, hi, lo>>.
U33Lt(a, b) ==
    \/ a[1] < b[1]
    \/ a[1] = b[1] /\ a[2] < b[2]
    \/ a[1] = b[1] /\ a[2] = b[2] /\ a[3] < b[3]

U33(a) == <<0, a[1], a[2]>>

\* i64 values as four limbs, most significant first.
I64Small(n) == <<0, 0, 0, n>>

I64Max == <<32767, LimbMax, LimbMax, LimbMax>>

I64Min == <<32768, 0, 0, 0>>

I64MinusOne == <<LimbMax, LimbMax, LimbMax, LimbMax>>

\* `v + 1` on i64 overflows exactly at i64::MAX.
I64IncOverflows(v) == v = I64Max

\* `v + 1` on the bit pattern, carries rippling upward (wrapping).
I64WrappingInc(v) ==
    LET c4 == v[4] + 1
        c3 == v[3] + (c4 \div Limb)
        c2 == v[2] + (c3 \div Limb)
        c1 == v[1] + (c2 \div Limb)
    IN  <<c1 % Limb, c2 % Limb, c3 % Limb, c4 % Limb>>

\* ------------------------------------------------------------ field types

Primitive(p) == [tag |-> "Primitive", prim |-> p, ordinal |-> 0, name |-> ""]

Existing(o) == [tag |-> "Existing", prim |-> "", ordinal |-> o, name |-> ""]

ForwardRef(s) == [tag |-> "ForwardRef", prim |-> "", ordinal |-> 0, name |-> s]

PrimitiveType ==
    {"Void", "Int8", "Int16", "Int32", "Int64", "UInt8", "UInt16", "UInt32",
     "UInt64", "Float", "Double", "Char", "Bool"}

\* PrimitiveType::to_ida_type
to_ida_type(p) ==
    CASE p = "Void"   -> 0
      [] p = "Int8"   -> 1
      [] p = "Int16"  -> 2
      [] p = "Int32"  -> 3
      [] p = "Int64"  -> 4
      [] p = "UInt8"  -> 5
      [] p = "UInt16" -> 6
      [] p = "UInt32" -> 7
      [] p = "UInt64" -> 8
      [] p = "Bool"   -> 8
      [] p = "Float"  -> 9
      [] p = "Double" -> 10
      [] p = "Char"   -> 1

\* Option<u64> of StructField::offset.
None == [some |-> FALSE, v |-> 0]

Some(v) == [some |-> TRUE, v |-> v]

\* ---------------------------------------------------------------- results

NoResult == [tag |-> "none", ordinal |-> 0, msg |-> ""]

\* Ok(Type::from_ordinal(o))
Ok(o) == [tag |-> "ok", ordinal |-> o, msg |-> ""]

\* Err(IDAError::ffi_with(msg))
Err(m) == [tag |-> "err", ordinal |-> 0, msg |-> m]

\* An arithmetic overflow in a build with overflow checks: the call panics.
Panic(m) == [tag |-> "panic", ordinal |-> 0, msg |-> m]

\* ------------------------------------------------------------------ state

Threads == {"t1", "t2"}

\* The thread of the sequential specification.
Main == "t1"

VARIABLES
    th,               \* per caller: its builder and the position of its build()
    log,              \* the catalog calls issued so far, in order
    next_ord,         \* the catalog's next free ordinal
    overflow_checks   \* whether the build traps integer overflow (debug profile)

vars == <<th, log, next_ord, overflow_checks>>

catalog == <<log, next_ord>>

NoBuilder == [kind |-> "none"]

Idle ==
    [pc |-> "idle", b |-> NoBuilder, n |-> 0, i |-> 0, ord |-> 0, off |-> 0,
     fto |-> 0, res |-> NoResult, clone |-> NoBuilder, cloned |-> FALSE,
     mark |-> 0, hist |-> <<>>]


\* ------------------------------------------------------- the type catalog

\* Ordinal the catalog has registered for a basic type code (never 0).
PrimitiveOrdinal(code) == code + 1

\* A handle the caller obtained before the builders of this model ran.
KnownOrdinal == 12

\* First ordinal the catalog hands out to a type created by a builder.
FirstFresh == 16

\* A record of one catalog call: who issued it, its arguments, its answer.
Call(t, op, args, ret) == [t |-> t, op |-> op, args |-> args, ret |-> ret]

\* Answers to a create call: the failure sentinel 0 or a fresh ordinal.
CreateAnswers == {0, next_ord}

\* The catalog may also answer create_pointer with the ordinal it already
\* gave to a pointer to the same target.
PointerAnswers(target) ==
    CreateAnswers \cup
    {log[k].ret : k \in {j \in 1..Len(log) : /\ log[j].op = "create_pointer"
                                             /\ log[j].args.target = target
                                             /\ log[j].ret # 0}}

\* Answers to get_primitive_type_ordinal.
PrimitiveAnswers(code) == {0, PrimitiveOrdinal(code)}

\* Answers to get_type_size: 0 (unknown) or a size in bytes.
SizeAnswers == {0, 4}

\* The catalog after a call that answered `ret`.
Allocated(ret) == IF ret = next_ord THEN next_ord + 1 ELSE next_ord

\* --------------------------------------------------------- thread helpers

Set(t, s) == th' = [th EXCEPT ![t] = s]

\* build() returns `r`: the builder is consumed and the result recorded.
Finish(s, r) ==
    [s EXCEPT !.pc = "done", !.res = r,
              !.hist = Append(@, [res |-> r, b |-> s.b, cloned |-> s.cloned])]

\* A new builder may be composed: nothing is being built, and the caller has
\* submissions left.
CanStart(t) ==
    /\ th[t].pc \in {"idle", "done"}
    /\ Len(th[t].hist) < MaxBuilds

\* The caller holds the new builder `b`; `mark` remembers how many catalog
\* calls had been issued when it was made.
Fresh(s, b) ==
    [s EXCEPT !.pc = "config", !.b = b, !.n = 0, !.i = 0, !.ord = 0, !.off = 0,
              !.fto = 0, !.res = NoResult, !.clone = NoBuilder, !.cloned = FALSE,
              !.mark = Len(log)]

\* A configuration call may be chained on the builder of kind `k`.
CanConfigure(t, k) ==
    /\ th[t].pc = "config"
    /\ th[t].b.kind = k
    /\ th[t].n < MaxCalls

\* A chained call that resolves a primitive reference as soon as it is given.
Configured_resolving(t, b) ==
    /\ Set(t, [th[t] EXCEPT !.b = b, !.n = @ + 1])
    /\ log' = Append(log, Call(t, "primitive_ordinal", [code |-> 1], 2))
    /\ UNCHANGED <<next_ord, overflow_checks>>

\* A configuration call returns the builder `b`.
Configured(t, b) ==
    /\ Set(t, [th[t] EXCEPT !.b = b, !.n = @ + 1])
    /\ UNCHANGED <<log, next_ord, overflow_checks>>

\* Handles returned to the caller by its earlier submissions.
Handles(t) ==
    {th[t].hist[k].res.ordinal :
        k \in {j \in 1..Len(th[t].hist) : th[t].hist[j].res.tag = "ok"}}

\* ----------------------------------------------------------- StructBuilder

StructField(name, field_type, offset) ==
    [name |-> name, field_type |-> field_type, offset |-> offset]

BitfieldInfo(name, bit_offset, bit_width, is_unsigned) ==
    [name |-> name, bit_offset |-> bit_offset, bit_width |-> bit_width,
     is_unsigned |-> is_unsigned]

StructBuilder(name, is_union) ==
    [kind |-> "struct", name |-> name, fields |-> <<>>, bitfields |-> <<>>,
     is_union |-> is_union]

\* StructBuilder::new
StructBuilder_new(t, name) ==
    /\ CanStart(t)
    /\ th[t].hist = <<>>
    /\ Set(t, Fresh(th[t], StructBuilder(name, FALSE)))
    /\ UNCHANGED <<log, next_ord, overflow_checks>>

\* StructBuilder::new_union
StructBuilder_new_union(t, name) ==
    /\ CanStart(t)
    /\ th[t].hist = <<>>
    /\ Set(t, Fresh(th[t], StructBuilder(name, TRUE)))
    /\ UNCHANGED <<log, next_ord, overflow_checks>>

\* The builder StructBuilder::field returns.
with_field(b, name, field_type) ==
    [b EXCEPT !.fields = Append(@, StructField(name, field_type, None))]

\* The builder StructBuilder::field_at returns.
with_field_at(b, name, field_type, offset) ==
    IF b.is_union
    THEN with_field(b, name, field_type)
    ELSE [b EXCEPT !.fields = Append(@, StructField(name, field_type, Some(offset)))]

\* The builder StructBuilder::bitfield returns.
with_bitfield(b, name, bit_offset, bit_width, is_unsigned) ==
    IF b.is_union
    THEN b
    ELSE [b EXCEPT !.bitfields =
              Append(@, BitfieldInfo(name, bit_offset, bit_width, is_unsigned))]

\* The builder StructBuilder::self_ref returns.
with_self_ref(b, name) == with_field(b, name, ForwardRef(b.name))

StructBuilder_field(t, name, field_type) ==
    /\ CanConfigure(t, "struct")
    /\ Configured(t, with_field(th[t].b, name, field_type))

StructBuilder_field_at(t, name, field_type, offset) ==
    /\ CanConfigure(t, "struct")
    /\ Configured(t, with_field_at(th[t].b, name, field_type, offset))

StructBuilder_is_union(t, is_union) ==
    /\ CanConfigure(t, "struct")
    /\ Configured(t, [th[t].b EXCEPT !.is_union = is_union])

StructBuilder_bitfield(t, name, bit_offset, bit_width, is_unsigned) ==
    /\ CanConfigure(t, "struct")
    /\ Configured(t, with_bitfield(th[t].b, name, bit_offset, bit_width, is_unsigned))

StructBuilder_self_ref(t, name) ==
    /\ CanConfigure(t, "struct")
    /\ Configured(t, with_self_ref(th[t].b, name))

\* A copy that carries the name and the fields but not the bitfields.
StructBuilder_clone_without_bitfields(b) ==
    [kind |-> "struct", name |-> b.name, fields |-> b.fields,
     bitfields |-> <<>>, is_union |-> b.is_union]

\* Clone for StructBuilder: the copy `clone` makes of builder `b`.
StructBuilder_clone(b) ==
    [kind |-> "struct",
     name |-> b.name,
     fields |-> [k \in 1..Len(b.fields) |->
                    StructField(b.fields[k].name, b.fields[k].field_type,
                                b.fields[k].offset)],
     bitfields |-> [k \in 1..Len(b.bitfields) |->
                    BitfieldInfo(b.bitfields[k].name, b.bitfields[k].bit_offset,
                                 b.bitfields[k].bit_width,
                                 b.bitfields[k].is_unsigned)],
     is_union |-> b.is_union]

\* `let c = b.clone();` taken when the builder is complete, before b.build().
StructBuilder_keep_clone(t) ==
    /\ th[t].pc = "config"
    /\ th[t].b.kind = "struct"
    /\ Set(t, [th[t] EXCEPT !.pc = "ready", !.clone = StructBuilder_clone(th[t].b)])
    /\ UNCHANGED <<log, next_ord, overflow_checks>>

\* The caller turns to the clone it kept, to submit it after the original.
StructBuilder_take_clone(t) ==
    /\ CanStart(t)
    /\ th[t].pc = "done"
    /\ th[t].clone # NoBuilder
    /\ Set(t, [Fresh(th[t], th[t].clone) EXCEPT !.pc = "ready", !.cloned = TRUE])
    /\ UNCHANGED <<log, next_ord, overflow_checks>>

\* The names of the entries 1..k of a list of fields or bitfields.
NamesUpTo(list, k) == {list[j].name : j \in 1..k}

\* Some entry of `list` carries a name that an earlier entry, or `seen`, has.
HasDuplicate(list, seen) ==
    \E k \in 1..Len(list) : list[k].name \in seen \cup NamesUpTo(list, k - 1)

\* The (start, end) pair validate pushes for a bitfield (wrapping add).
range_of(bf) == <<bf.bit_offset, U32WrappingAdd(bf.bit_offset, bf.bit_width)>>

\* The overlap test of validate on (start, end) against one existing range.
ranges_overlap(new, existing) ==
    LET start == new[1]
        end == new[2]
        existing_start == existing[1]
        existing_end == existing[2]
    IN  \/ U32Le(existing_start, start) /\ U32Lt(start, existing_end)
        \/ U32Lt(existing_start, end) /\ U32Le(end, existing_end)
        \/ U32Le(start, existing_start) /\ U32Le(existing_end, end)

\* The loop of validate over the bitfields from index k on.
RECURSIVE check_bit_ranges(_, _, _)
check_bit_ranges(bitfields, k, checks) ==
    IF k > Len(bitfields) THEN Ok(0)
    ELSE IF checks /\ U32AddOverflows(bitfields[k].bit_offset, bitfields[k].bit_width)
    THEN Panic("attempt to add with overflow")
    ELSE IF \E j \in 1..(k - 1) :
                ranges_overlap(range_of(bitfields[k]), range_of(bitfields[j]))
    THEN Err("bitfield overlaps")
    ELSE check_bit_ranges(bitfields, k + 1, checks)

\* validate with the bitfield names checked in a name set of their own.
StructBuilder_validate_separate_names(b, checks) ==
    IF b.name = "" THEN Err("empty name")
    ELSE IF HasDuplicate(b.fields, {}) THEN Err("duplicate field name")
    ELSE IF HasDuplicate(b.bitfields, {}) THEN Err("duplicate bitfield name")
    ELSE check_bit_ranges(b.bitfields, 1, checks)

\* TypeValidator::validate for StructBuilder (Ok(0) stands for Ok(())).
StructBuilder_validate(b, checks) ==
    IF b.name = "" THEN Err("empty name")
    ELSE IF HasDuplicate(b.fields, {}) THEN Err("duplicate field name")
    ELSE IF HasDuplicate(b.bitfields, NamesUpTo(b.fields, Len(b.fields)))
    THEN Err("duplicate bitfield name")
    ELSE check_bit_ranges(b.bitfields, 1, checks)


\* A build() that goes from the fields straight to finalize.
struct_at_bitfield_skipped(s, k) == [s EXCEPT !.pc = "finalize", !.i = 0]

\* Where build() stands once the fields before index k are added.
struct_at_bitfield(s, k) ==
    IF k <= Len(s.b.bitfields)
    THEN [s EXCEPT !.pc = "bitfields", !.i = k]
    ELSE [s EXCEPT !.pc = "finalize", !.i = 0]

struct_at_field(s, k) ==
    IF k <= Len(s.b.fields)
    THEN [s EXCEPT !.pc = "fields", !.i = k]
    ELSE struct_at_bitfield(s, 1)

\* A cursor advance that falls back to 4 bytes for an unknown size.
field_stride_fallback_4(field_size) == IF field_size > 0 THEN field_size ELSE 4

\* The size by which build() advances the cursor for a reported size.
field_stride(field_size) == IF field_size > 0 THEN field_size ELSE 8

\* A self-reference aimed at the type ordinal resolved for the field before.
self_ref_target_previous(s) == s.fto

\* The ordinal build() passes to create_pointer_type for a self-reference.
self_ref_target(s) == s.ord

\* The offset build() passes to add_field_to_type for field `f`.
field_offset(f, current_offset) == IF f.offset.some THEN f.offset.v ELSE current_offset

\* StructBuilder::build, validation: an error returns before any catalog call.
StructBuilder_build(t) ==
    /\ th[t].pc \in {"config", "ready"}
    /\ th[t].b.kind = "struct"
    /\ LET v == StructBuilder_validate(th[t].b, overflow_checks)
       IN  Set(t, CASE v.tag = "panic" -> [th[t] EXCEPT !.pc = "panicked", !.res = v]
                    [] v.tag = "err" -> Finish(th[t], v)
                    [] OTHER -> [th[t] EXCEPT !.pc = "create"])
    /\ UNCHANGED <<log, next_ord, overflow_checks>>

\* StructBuilder::build, create_struct_type / create_union_type.
StructBuilder_build_create(t) ==
    /\ th[t].pc = "create"
    /\ th[t].b.kind = "struct"
    /\ \E ret \in CreateAnswers :
        /\ log' = Append(log, Call(t, IF th[t].b.is_union THEN "create_union"
                                                           ELSE "create_struct",
                                   [name |-> th[t].b.name], ret))
        /\ next_ord' = Allocated(ret)
        /\ Set(t, IF ret = 0
                  THEN Finish(th[t], Err("create failed"))
                  ELSE struct_at_field([th[t] EXCEPT !.ord = ret, !.off = 0], 1))
    /\ UNCHANGED overflow_checks

\* StructBuilder::build, the match on field.field_type and the zero check.
StructBuilder_build_resolve(t) ==
    /\ th[t].pc = "fields"
    /\ th[t].b.kind = "struct"
    /\ LET f == th[t].b.fields[th[t].i]
           resolved(o) == IF o = 0
                          THEN Finish(th[t], Err("invalid field type"))
                          ELSE [th[t] EXCEPT !.pc = "add", !.fto = o]
       IN  \/ /\ f.field_type.tag = "Primitive"
              /\ \E ret \in PrimitiveAnswers(to_ida_type(f.field_type.prim)) :
                    /\ log' = Append(log, Call(t, "primitive_ordinal",
                                  [code |-> to_ida_type(f.field_type.prim)], ret))
                    /\ Set(t, resolved(ret))
              /\ UNCHANGED next_ord
           \/ /\ f.field_type.tag = "Existing"
              /\ Set(t, resolved(f.field_type.ordinal))
              /\ UNCHANGED <<log, next_ord>>
           \/ /\ f.field_type.tag = "ForwardRef"
              /\ f.field_type.name = th[t].b.name
              /\ \E ret \in PointerAnswers(self_ref_target(th[t])) :
                    /\ log' = Append(log, Call(t, "create_pointer",
                                  [target |-> self_ref_target(th[t])], ret))
                    /\ next_ord' = Allocated(ret)
                    /\ Set(t, resolved(ret))
           \/ /\ f.field_type.tag = "ForwardRef"
              /\ f.field_type.name # th[t].b.name
              /\ Set(t, Finish(th[t], Err("forward reference not supported")))
              /\ UNCHANGED <<log, next_ord>>
    /\ UNCHANGED overflow_checks

\* add_field_to_type with its answer ignored.
StructBuilder_build_add_field_unchecked(t) ==
    /\ th[t].pc = "add"
    /\ th[t].b.kind = "struct"
    /\ LET f == th[t].b.fields[th[t].i]
       IN  \E success \in BOOLEAN :
            /\ log' = Append(log, Call(t, "add_field",
                          [owner |-> th[t].ord, name |-> f.name,
                           type |-> th[t].fto,
                           offset |-> field_offset(f, th[t].off)], success))
            /\ Set(t, IF ~th[t].b.is_union /\ ~f.offset.some
                      THEN [th[t] EXCEPT !.pc = "size"]
                      ELSE struct_at_field(th[t], th[t].i + 1))
    /\ UNCHANGED <<next_ord, overflow_checks>>

\* add_field_to_type followed by the size query for every struct field.
StructBuilder_build_add_field_always_sized(t) ==
    /\ th[t].pc = "add"
    /\ th[t].b.kind = "struct"
    /\ LET f == th[t].b.fields[th[t].i]
       IN  \E success \in BOOLEAN :
            /\ log' = Append(log, Call(t, "add_field",
                          [owner |-> th[t].ord, name |-> f.name,
                           type |-> th[t].fto,
                           offset |-> field_offset(f, th[t].off)], success))
            /\ Set(t, IF ~success
                      THEN Finish(th[t], Err("add field failed"))
                      ELSE IF ~th[t].b.is_union
                      THEN [th[t] EXCEPT !.pc = "size"]
                      ELSE struct_at_field(th[t], th[t].i + 1))
    /\ UNCHANGED <<next_ord, overflow_checks>>

\* StructBuilder::build, add_field_to_type.
StructBuilder_build_add_field(t) ==
    /\ th[t].pc = "add"
    /\ th[t].b.kind = "struct"
    /\ LET f == th[t].b.fields[th[t].i]
       IN  \E success \in BOOLEAN :
            /\ log' = Append(log, Call(t, "add_field",
                          [owner |-> th[t].ord, name |-> f.name,
                           type |-> th[t].fto,
                           offset |-> field_offset(f, th[t].off)], success))
            /\ Set(t, IF ~success
                      THEN Finish(th[t], Err("add field failed"))
                      ELSE IF ~th[t].b.is_union /\ ~f.offset.some
                      THEN [th[t] EXCEPT !.pc = "size"]
                      ELSE struct_at_field(th[t], th[t].i + 1))
    /\ UNCHANGED <<next_ord, overflow_checks>>

\* StructBuilder::build, get_type_size and the cursor update.
StructBuilder_build_type_size(t) ==
    /\ th[t].pc = "size"
    /\ th[t].b.kind = "struct"
    /\ \E field_size \in SizeAnswers :
        /\ log' = Append(log, Call(t, "type_size", [ordinal |-> th[t].fto],
                                   field_size))
        /\ Set(t, struct_at_field(
                    [th[t] EXCEPT !.off = @ + field_stride(field_size)],
                    th[t].i + 1))
    /\ UNCHANGED <<next_ord, overflow_checks>>

\* StructBuilder::build, add_bitfield_to_struct.
StructBuilder_build_add_bitfield(t) ==
    /\ th[t].pc = "bitfields"
    /\ th[t].b.kind = "struct"
    /\ LET bf == th[t].b.bitfields[th[t].i]
       IN  \E success \in BOOLEAN :
            /\ log' = Append(log, Call(t, "add_bitfield",
                          [owner |-> th[t].ord, name |-> bf.name,
                           bit_offset |-> bf.bit_offset,
                           bit_width |-> bf.bit_width,
                           is_unsigned |-> bf.is_unsigned], success))
            /\ Set(t, IF ~success
                      THEN Finish(th[t], Err("add bitfield failed"))
                      ELSE struct_at_bitfield(th[t], th[t].i + 1))
    /\ UNCHANGED <<next_ord, overflow_checks>>

\* finalize_type aimed at the ordinal the catalog allocated last.
StructBuilder_build_finalize_latest(t) ==
    /\ th[t].pc = "finalize"
    /\ th[t].b.kind = "struct"
    /\ \E success \in BOOLEAN :
        /\ log' = Append(log, Call(t, "finalize", [ordinal |-> next_ord - 1], success))
        /\ Set(t, IF ~success
                  THEN Finish(th[t], Err("finalize failed"))
                  ELSE Finish(th[t], Ok(th[t].ord)))
    /\ UNCHANGED <<next_ord, overflow_checks>>

\* StructBuilder::build, finalize_type and the handle returned.
StructBuilder_build_finalize(t) ==
    /\ th[t].pc = "finalize"
    /\ th[t].b.kind = "struct"
    /\ \E success \in BOOLEAN :
        /\ log' = Append(log, Call(t, "finalize", [ordinal |-> th[t].ord], success))
        /\ Set(t, IF ~success
                  THEN Finish(th[t], Err("finalize failed"))
                  ELSE Finish(th[t], Ok(th[t].ord)))
    /\ UNCHANGED <<next_ord, overflow_checks>>

\* ------------------------------------------------------------- EnumBuilder

EnumMember(name, value) == [name |-> name, value |-> value]

EnumBuilder(name, width) ==
    [kind |-> "enum", name |-> name, width |-> width, members |-> <<>>]

\* EnumBuilder::new
EnumBuilder_new(t, name, width) ==
    /\ CanStart(t)
    /\ th[t].hist = <<>>
    /\ Set(t, Fresh(th[t], EnumBuilder(name, width)))
    /\ UNCHANGED <<log, next_ord, overflow_checks>>

\* EnumBuilder::member
EnumBuilder_member(t, name, value) ==
    /\ CanConfigure(t, "enum")
    /\ Configured(t, [th[t].b EXCEPT !.members = Append(@, EnumMember(name, value))])

\* An auto value that numbers members by their position in the list.
next_value_by_position(members) == I64Small(Len(members))

\* The value auto_member computes: `last.value + 1`, or 0 for the first member.
next_value(members) ==
    IF members # <<>> THEN I64WrappingInc(members[Len(members)].value)
                      ELSE I64Small(0)

\* `last.value + 1` traps in a build with overflow checks.
next_value_panics(members, checks) ==
    /\ checks
    /\ members # <<>>
    /\ I64IncOverflows(members[Len(members)].value)

\* EnumBuilder::auto_member
EnumBuilder_auto_member(t, name) ==
    /\ CanConfigure(t, "enum")
    /\ IF next_value_panics(th[t].b.members, overflow_checks)
       THEN /\ Set(t, [th[t] EXCEPT !.pc = "aborted", !.n = @ + 1,
                           !.res = Panic("attempt to add with overflow")])
            /\ UNCHANGED <<log, next_ord, overflow_checks>>
       ELSE Configured(t, [th[t].b EXCEPT !.members =
                    Append(@, EnumMember(name, next_value(th[t].b.members)))])

\* A width list that also admits 16-byte enums.
EnumWidths_with_16 == {1, 2, 4, 8, 16}

\* The widths EnumBuilder::validate accepts.
EnumWidths == {1, 2, 4, 8}

\* validate without the test of the name.
EnumBuilder_validate_any_name(b) ==
    IF b.width \notin EnumWidths THEN Err("invalid enum width")
    ELSE IF HasDuplicate(b.members, {}) THEN Err("duplicate enum member name")
    ELSE Ok(0)

\* TypeValidator::validate for EnumBuilder.
EnumBuilder_validate(b) ==
    IF b.name = "" THEN Err("empty name")
    ELSE IF b.width \notin EnumWidths THEN Err("invalid enum width")
    ELSE IF HasDuplicate(b.members, {}) THEN Err("duplicate enum member name")
    ELSE Ok(0)

\* Where build() stands once the members before index k are added.
enum_at_member(s, k) ==
    IF k <= Len(s.b.members)
    THEN [s EXCEPT !.pc = "members", !.i = k]
    ELSE [s EXCEPT !.pc = "finalize", !.i = 0]

\* EnumBuilder::build, validation.
EnumBuilder_build(t) ==
    /\ th[t].pc = "config"
    /\ th[t].b.kind = "enum"
    /\ LET v == EnumBuilder_validate(th[t].b)
       IN  Set(t, IF v.tag = "err" THEN Finish(th[t], v)
                                   ELSE [th[t] EXCEPT !.pc = "create"])
    /\ UNCHANGED <<log, next_ord, overflow_checks>>

\* EnumBuilder::build, create_enum_type.
EnumBuilder_build_create(t) ==
    /\ th[t].pc = "create"
    /\ th[t].b.kind = "enum"
    /\ \E ret \in CreateAnswers :
        /\ log' = Append(log, Call(t, "create_enum",
                         [name |-> th[t].b.name, width |-> th[t].b.width], ret))
        /\ next_ord' = Allocated(ret)
        /\ Set(t, IF ret = 0
                  THEN Finish(th[t], Err("create failed"))
                  ELSE enum_at_member([th[t] EXCEPT !.ord = ret], 1))
    /\ UNCHANGED overflow_checks

\* add_enum_member with its answer ignored.
EnumBuilder_build_add_member_unchecked(t) ==
    /\ th[t].pc = "members"
    /\ th[t].b.kind = "enum"
    /\ LET m == th[t].b.members[th[t].i]
       IN  \E success \in BOOLEAN :
            /\ log' = Append(log, Call(t, "add_enum_member",
                          [owner |-> th[t].ord, name |-> m.name,
                           value |-> m.value], success))
            /\ Set(t, enum_at_member(th[t], th[t].i + 1))
    /\ UNCHANGED <<next_ord, overflow_checks>>

\* EnumBuilder::build, add_enum_member.
EnumBuilder_build_add_member(t) ==
    /\ th[t].pc = "members"
    /\ th[t].b.kind = "enum"
    /\ LET m == th[t].b.members[th[t].i]
       IN  \E success \in BOOLEAN :
            /\ log' = Append(log, Call(t, "add_enum_member",
                          [owner |-> th[t].ord, name |-> m.name,
                           value |-> m.value], success))
            /\ Set(t, IF ~success
                      THEN Finish(th[t], Err("add member failed"))
                      ELSE enum_at_member(th[t], th[t].i + 1))
    /\ UNCHANGED <<next_ord, overflow_checks>>

\* EnumBuilder::build, finalize_type and the handle returned.
EnumBuilder_build_finalize(t) ==
    /\ th[t].pc = "finalize"
    /\ th[t].b.kind = "enum"
    /\ \E success \in BOOLEAN :
        /\ log' = Append(log, Call(t, "finalize", [ordinal |-> th[t].ord], success))
        /\ Set(t, IF ~success
                  THEN Finish(th[t], Err("finalize failed"))
                  ELSE Finish(th[t], Ok(th[t].ord)))
    /\ UNCHANGED <<next_ord, overflow_checks>>

\* ------------------------------------------- ArrayBuilder, PointerBuilder

ArrayBuilder(element_type, num_elements) ==
    [kind |-> "array", element_type |-> element_type,
     num_elements |-> num_elements]

PointerBuilder(target_type) == [kind |-> "pointer", target_type |-> target_type]

\* ArrayBuilder::new
ArrayBuilder_new(t, element_type, num_elements) ==
    /\ CanStart(t)
    /\ Set(t, Fresh(th[t], ArrayBuilder(element_type, num_elements)))
    /\ UNCHANGED <<log, next_ord, overflow_checks>>

\* PointerBuilder::new
PointerBuilder_new(t, target_type) ==
    /\ CanStart(t)
    /\ Set(t, Fresh(th[t], PointerBuilder(target_type)))
    /\ UNCHANGED <<log, next_ord, overflow_checks>>

\* The match on a target reference with no test of the resolved ordinal.
resolve_target_unchecked(t, ft) ==
    LET resolved(o) == [th[t] EXCEPT !.pc = "create", !.fto = o]
    IN  \/ /\ ft.tag = "Primitive"
           /\ \E ret \in PrimitiveAnswers(to_ida_type(ft.prim)) :
                /\ log' = Append(log, Call(t, "primitive_ordinal",
                                           [code |-> to_ida_type(ft.prim)], ret))
                /\ Set(t, resolved(ret))
        \/ /\ ft.tag = "Existing"
           /\ Set(t, resolved(ft.ordinal))
           /\ UNCHANGED log
        \/ /\ ft.tag = "ForwardRef"
           /\ Set(t, Finish(th[t], Err("forward references not supported")))
           /\ UNCHANGED log

\* The match on a field reference that admits no forward reference, followed
\* by the zero check (ArrayBuilder::build and PointerBuilder::build).
resolve_target(t, ft) ==
    LET resolved(o) == IF o = 0
                       THEN Finish(th[t], Err("invalid target type"))
                       ELSE [th[t] EXCEPT !.pc = "create", !.fto = o]
    IN  \/ /\ ft.tag = "Primitive"
           /\ \E ret \in PrimitiveAnswers(to_ida_type(ft.prim)) :
                /\ log' = Append(log, Call(t, "primitive_ordinal",
                                           [code |-> to_ida_type(ft.prim)], ret))
                /\ Set(t, resolved(ret))
        \/ /\ ft.tag = "Existing"
           /\ Set(t, resolved(ft.ordinal))
           /\ UNCHANGED log
        \/ /\ ft.tag = "ForwardRef"
           /\ Set(t, Finish(th[t], Err("forward references not supported")))
           /\ UNCHANGED log

\* ArrayBuilder::build, the element type.
ArrayBuilder_build(t) ==
    /\ th[t].pc = "config"
    /\ th[t].b.kind = "array"
    /\ resolve_target(t, th[t].b.element_type)
    /\ UNCHANGED <<next_ord, overflow_checks>>

\* create_array_type refused locally for an array of no elements.
ArrayBuilder_build_create_nonempty(t) ==
    /\ th[t].pc = "create"
    /\ th[t].b.kind = "array"
    /\ IF th[t].b.num_elements = 0
       THEN /\ Set(t, Finish(th[t], Err("empty array")))
            /\ UNCHANGED <<log, next_ord>>
       ELSE \E ret \in CreateAnswers :
            /\ log' = Append(log, Call(t, "create_array",
                             [element |-> th[t].fto,
                              count |-> th[t].b.num_elements], ret))
            /\ next_ord' = Allocated(ret)
            /\ Set(t, IF ret = 0 THEN Finish(th[t], Err("create failed"))
                                 ELSE Finish(th[t], Ok(ret)))
    /\ UNCHANGED overflow_checks

\* ArrayBuilder::build, create_array_type.
ArrayBuilder_build_create(t) ==
    /\ th[t].pc = "create"
    /\ th[t].b.kind = "array"
    /\ \E ret \in CreateAnswers :
        /\ log' = Append(log, Call(t, "create_array",
                         [element |-> th[t].fto,
                          count |-> th[t].b.num_elements], ret))
        /\ next_ord' = Allocated(ret)
        /\ Set(t, IF ret = 0 THEN Finish(th[t], Err("create failed"))
                             ELSE Finish(th[t], Ok(ret)))
    /\ UNCHANGED overflow_checks

\* PointerBuilder::build, the target type.
PointerBuilder_build(t) ==
    /\ th[t].pc = "config"
    /\ th[t].b.kind = "pointer"
    /\ resolve_target(t, th[t].b.target_type)
    /\ UNCHANGED <<next_ord, overflow_checks>>

\* PointerBuilder::build, create_pointer_type.
PointerBuilder_build_create(t) ==
    /\ th[t].pc = "create"
    /\ th[t].b.kind = "pointer"
    /\ \E ret \in PointerAnswers(th[t].fto) :
        /\ log' = Append(log, Call(t, "create_pointer",
                                   [target |-> th[t].fto], ret))
        /\ next_ord' = Allocated(ret)
        /\ Set(t, IF ret = 0 THEN Finish(th[t], Err("create failed"))
                             ELSE Finish(th[t], Ok(ret)))
    /\ UNCHANGED overflow_checks

\* -------------------------------------------------- FunctionPointerBuilder

FunctionPointerBuilder(function_type) ==
    [kind |-> "funcptr", function_type |-> function_type]

\* FunctionPointerBuilder::new
FunctionPointerBuilder_new(t, function_type) ==
    /\ CanStart(t)
    /\ Set(t, Fresh(th[t], FunctionPointerBuilder(function_type)))
    /\ UNCHANGED <<log, next_ord, overflow_checks>>

\* create_function_pointer_type with its answer wrapped as it comes.
FunctionPointerBuilder_build_unchecked(t) ==
    /\ th[t].pc = "config"
    /\ th[t].b.kind = "funcptr"
    /\ \E ret \in CreateAnswers :
        /\ log' = Append(log, Call(t, "create_function_pointer",
                                   [func |-> th[t].b.function_type], ret))
        /\ next_ord' = Allocated(ret)
        /\ Set(t, Finish(th[t], Ok(ret)))
    /\ UNCHANGED overflow_checks

\* FunctionPointerBuilder::build
FunctionPointerBuilder_build(t) ==
    /\ th[t].pc = "config"
    /\ th[t].b.kind = "funcptr"
    /\ \E ret \in CreateAnswers :
        /\ log' = Append(log, Call(t, "create_function_pointer",
                                   [func |-> th[t].b.function_type], ret))
        /\ next_ord' = Allocated(ret)
        /\ Set(t, IF ret = 0 THEN Finish(th[t], Err("create failed"))
                             ELSE Finish(th[t], Ok(ret)))
    /\ UNCHANGED overflow_checks


\* --------------------------------------------------------- FunctionBuilder

FunctionParameter(name, param_type, is_hidden) ==
    [name |-> name, param_type |-> param_type, is_hidden |-> is_hidden]

\* FunctionAttributes::default()
FunctionAttributes ==
    [is_noreturn |-> FALSE, is_pure |-> FALSE, is_static |-> FALSE,
     is_virtual |-> FALSE, is_const |-> FALSE, is_constructor |-> FALSE,
     is_destructor |-> FALSE]

AttributeNames ==
    {"is_noreturn", "is_pure", "is_static", "is_virtual", "is_const",
     "is_constructor", "is_destructor"}

\* CallingConvention: a named variant, or Custom(code).
CallingConvention(tag) == [tag |-> tag, code |-> 0]

Custom(cc) == [tag |-> "Custom", code |-> cc]

\* CallingConvention::to_ida_cc
to_ida_cc(cc) ==
    CASE cc.tag = "Unknown"  -> 16
      [] cc.tag = "Cdecl"    -> 48
      [] cc.tag = "Stdcall"  -> 80
      [] cc.tag = "Pascal"   -> 96
      [] cc.tag = "Fastcall" -> 112
      [] cc.tag = "Thiscall" -> 128
      [] cc.tag = "Swift"    -> 144
      [] cc.tag = "Golang"   -> 176
      [] cc.tag = "Custom"   -> cc.code

\* return_type: None, an Option<FieldType> holding no reference.
NoReturnType ==
    [some |-> FALSE, v |-> [tag |-> "None", prim |-> "", ordinal |-> 0, name |-> ""]]

\* FunctionBuilder::new (return_type None is [some |-> FALSE]).
FunctionBuilder ==
    [kind |-> "function", return_type |-> NoReturnType, parameters |-> <<>>,
     calling_convention |-> CallingConvention("Unknown"), is_vararg |-> FALSE,
     attributes |-> FunctionAttributes]

FunctionBuilder_new(t) ==
    /\ CanStart(t)
    /\ th[t].hist = <<>>
    /\ Set(t, Fresh(th[t], FunctionBuilder))
    /\ UNCHANGED <<log, next_ord, overflow_checks>>

\* FunctionBuilder::returns
FunctionBuilder_returns(t, return_type) ==
    /\ CanConfigure(t, "function")
    /\ Configured(t, [th[t].b EXCEPT !.return_type = Some(return_type)])

\* FunctionBuilder::param
FunctionBuilder_param(t, name, param_type) ==
    /\ CanConfigure(t, "function")
    /\ Configured(t, [th[t].b EXCEPT !.parameters =
                        Append(@, FunctionParameter(name, param_type, FALSE))])

\* FunctionBuilder::hidden_param
FunctionBuilder_hidden_param(t, name, param_type) ==
    /\ CanConfigure(t, "function")
    /\ Configured(t, [th[t].b EXCEPT !.parameters =
                        Append(@, FunctionParameter(name, param_type, TRUE))])

\* FunctionBuilder::calling_convention
FunctionBuilder_calling_convention(t, cc) ==
    /\ CanConfigure(t, "function")
    /\ Configured(t, [th[t].b EXCEPT !.calling_convention = cc])

\* FunctionBuilder::vararg
FunctionBuilder_vararg(t, is_vararg) ==
    /\ CanConfigure(t, "function")
    /\ Configured(t, [th[t].b EXCEPT !.is_vararg = is_vararg])

\* FunctionBuilder::noreturn, pure_func, static_func, virtual_func,
\* const_func, constructor, destructor: each sets its own flag.
FunctionBuilder_attribute(t, a) ==
    /\ CanConfigure(t, "function")
    /\ Configured(t, [th[t].b EXCEPT !.attributes[a] = TRUE])

\* A duplicate test that counts the empty name like any other name.
HasDuplicateParameter_any_name(parameters) ==
    \E k \in 1..Len(parameters) :
        \E j \in 1..(k - 1) : parameters[j].name = parameters[k].name

\* Some parameter carries a non-empty name that an earlier one has.
HasDuplicateParameter(parameters) ==
    \E k \in 1..Len(parameters) :
        /\ parameters[k].name # ""
        /\ \E j \in 1..(k - 1) : parameters[j].name = parameters[k].name

\* validate without the constructor/destructor exclusion.
FunctionBuilder_validate_names_only(b) ==
    IF HasDuplicateParameter(b.parameters) THEN Err("duplicate parameter name")
    ELSE Ok(0)

\* TypeValidator::validate for FunctionBuilder.
FunctionBuilder_validate(b) ==
    IF HasDuplicateParameter(b.parameters) THEN Err("duplicate parameter name")
    ELSE IF b.attributes.is_constructor /\ b.attributes.is_destructor
    THEN Err("both constructor and destructor")
    ELSE Ok(0)

\* Where build() stands once the parameters before index k are added.
func_at_param(s, k) ==
    IF k <= Len(s.b.parameters)
    THEN [s EXCEPT !.pc = "params", !.i = k]
    ELSE [s EXCEPT !.pc = "attributes", !.i = 0]

\* FunctionBuilder::build, validation.
FunctionBuilder_build(t) ==
    /\ th[t].pc = "config"
    /\ th[t].b.kind = "function"
    /\ LET v == FunctionBuilder_validate(th[t].b)
       IN  Set(t, IF v.tag = "err" THEN Finish(th[t], v)
                                   ELSE [th[t] EXCEPT !.pc = "return"])
    /\ UNCHANGED <<log, next_ord, overflow_checks>>

\* FunctionBuilder::build, the match on self.return_type.
FunctionBuilder_build_return(t) ==
    /\ th[t].pc = "return"
    /\ th[t].b.kind = "function"
    /\ LET rt == th[t].b.return_type
           resolved(o) == [th[t] EXCEPT !.pc = "create", !.fto = o]
       IN  \/ /\ ~rt.some
              /\ Set(t, resolved(0))
              /\ UNCHANGED log
           \/ /\ rt.some
              /\ rt.v.tag = "Primitive"
              /\ \E ret \in PrimitiveAnswers(to_ida_type(rt.v.prim)) :
                    /\ log' = Append(log, Call(t, "primitive_ordinal",
                                    [code |-> to_ida_type(rt.v.prim)], ret))
                    /\ Set(t, resolved(ret))
           \/ /\ rt.some
              /\ rt.v.tag = "Existing"
              /\ Set(t, resolved(rt.v.ordinal))
              /\ UNCHANGED log
           \/ /\ rt.some
              /\ rt.v.tag = "ForwardRef"
              /\ Set(t, Finish(th[t], Err("forward references not supported")))
              /\ UNCHANGED log
    /\ UNCHANGED <<next_ord, overflow_checks>>

\* create_function_type called with the code of the default convention.
FunctionBuilder_build_create_default_cc(t) ==
    /\ th[t].pc = "create"
    /\ th[t].b.kind = "function"
    /\ \E ret \in CreateAnswers :
        /\ log' = Append(log, Call(t, "create_function",
                         [return_type |-> th[t].fto,
                          cc |-> to_ida_cc(CallingConvention("Unknown")),
                          is_vararg |-> th[t].b.is_vararg], ret))
        /\ next_ord' = Allocated(ret)
        /\ Set(t, IF ret = 0
                  THEN Finish(th[t], Err("create failed"))
                  ELSE func_at_param([th[t] EXCEPT !.ord = ret], 1))
    /\ UNCHANGED overflow_checks

\* FunctionBuilder::build, create_function_type.
FunctionBuilder_build_create(t) ==
    /\ th[t].pc = "create"
    /\ th[t].b.kind = "function"
    /\ \E ret \in CreateAnswers :
        /\ log' = Append(log, Call(t, "create_function",
                         [return_type |-> th[t].fto,
                          cc |-> to_ida_cc(th[t].b.calling_convention),
                          is_vararg |-> th[t].b.is_vararg], ret))
        /\ next_ord' = Allocated(ret)
        /\ Set(t, IF ret = 0
                  THEN Finish(th[t], Err("create failed"))
                  ELSE func_at_param([th[t] EXCEPT !.ord = ret], 1))
    /\ UNCHANGED overflow_checks

\* FunctionBuilder::build, the match on param.param_type and the zero check.
FunctionBuilder_build_resolve(t) ==
    /\ th[t].pc = "params"
    /\ th[t].b.kind = "function"
    /\ LET p == th[t].b.parameters[th[t].i]
           resolved(o) == IF o = 0
                          THEN Finish(th[t], Err("invalid parameter type"))
                          ELSE [th[t] EXCEPT !.pc = "add", !.fto = o]
       IN  \/ /\ p.param_type.tag = "Primitive"
              /\ \E ret \in PrimitiveAnswers(to_ida_type(p.param_type.prim)) :
                    /\ log' = Append(log, Call(t, "primitive_ordinal",
                                  [code |-> to_ida_type(p.param_type.prim)], ret))
                    /\ Set(t, resolved(ret))
           \/ /\ p.param_type.tag = "Existing"
              /\ Set(t, resolved(p.param_type.ordinal))
              /\ UNCHANGED log
           \/ /\ p.param_type.tag = "ForwardRef"
              /\ Set(t, Finish(th[t], Err("forward references not supported")))
              /\ UNCHANGED log
    /\ UNCHANGED <<next_ord, overflow_checks>>

\* FunctionBuilder::build, add_function_parameter.
FunctionBuilder_build_add_parameter(t) ==
    /\ th[t].pc = "add"
    /\ th[t].b.kind = "function"
    /\ LET p == th[t].b.parameters[th[t].i]
       IN  \E success \in BOOLEAN :
            /\ log' = Append(log, Call(t, "add_parameter",
                          [owner |-> th[t].ord, name |-> p.name,
                           type |-> th[t].fto, is_hidden |-> p.is_hidden],
                          success))
            /\ Set(t, IF ~success
                      THEN Finish(th[t], Err("add parameter failed"))
                      ELSE func_at_param(th[t], th[t].i + 1))
    /\ UNCHANGED <<next_ord, overflow_checks>>

\* FunctionBuilder::build, set_function_attributes and the handle returned.
FunctionBuilder_build_attributes(t) ==
    /\ th[t].pc = "attributes"
    /\ th[t].b.kind = "function"
    /\ \E success \in BOOLEAN :
        /\ log' = Append(log, Call(t, "set_function_attributes",
                         [owner |-> th[t].ord, attributes |-> th[t].b.attributes],
                         success))
        /\ Set(t, IF ~success
                  THEN Finish(th[t], Err("set attributes failed"))
                  ELSE Finish(th[t], Ok(th[t].ord)))
    /\ UNCHANGED <<next_ord, overflow_checks>>

\* ------------------------------------------------------- inputs of Spec

StructNames == {"", "Node"}

FieldNames == {"a", "b"}

FieldTypes == {Primitive("Int32"), Existing(0), Existing(KnownOrdinal),
               ForwardRef("Other")}

ExplicitOffsets == {16}

BitfieldNames == {"b", "f"}

\* (bit_offset, bit_width, is_unsigned): unsigned [0,4), signed [2,6),
\* unsigned [4,8).
BitRanges == {<<U32(0, 0), U32(0, 4), TRUE>>, <<U32(0, 2), U32(0, 4), FALSE>>,
              <<U32(0, 4), U32(0, 4), TRUE>>}

StructConfig(t) ==
    \/ \E name \in StructNames : StructBuilder_new(t, name)
    \/ \E name \in StructNames : StructBuilder_new_union(t, name)
    \/ \E name \in FieldNames, ft \in FieldTypes : StructBuilder_field(t, name, ft)
    \/ \E name \in FieldNames, o \in ExplicitOffsets :
            StructBuilder_field_at(t, name, Primitive("Int32"), o)
    \/ \E u \in BOOLEAN : StructBuilder_is_union(t, u)
    \/ \E name \in BitfieldNames, r \in BitRanges :
            StructBuilder_bitfield(t, name, r[1], r[2], r[3])
    \/ \E name \in FieldNames : StructBuilder_self_ref(t, name)
    \/ StructBuilder_keep_clone(t)
    \/ StructBuilder_take_clone(t)

StructBuild(t) ==
    \/ StructBuilder_build(t)
    \/ StructBuilder_build_create(t)
    \/ StructBuilder_build_resolve(t)
    \/ StructBuilder_build_add_field(t)
    \/ StructBuilder_build_type_size(t)
    \/ StructBuilder_build_add_bitfield(t)
    \/ StructBuilder_build_finalize(t)

Init ==
    /\ th = [t \in Threads |-> Idle]
    /\ log = <<>>
    /\ next_ord = FirstFresh
    /\ overflow_checks \in BOOLEAN

\* ------------------------------------------------ inputs of Spec, continued

EnumNames == {"", "Color"}

\* Widths passed to EnumBuilder::new.
EnumWidthInputs == {0, 1, 2, 3, 4, 5, 8, 16}

MemberNames == {"x", "y"}

MemberValues == {I64Small(100), I64Max, I64MinusOne}

\* Targets of the array, pointer and function pointer builders: anything for
\* a caller's first builder, a handle it was returned for a later one.
TargetTypes(t) ==
    IF th[t].hist = <<>>
    THEN {Primitive(p) : p \in PrimitiveType}
            \cup {Existing(0), Existing(KnownOrdinal), ForwardRef("Node")}
    ELSE {Existing(h) : h \in Handles(t)}

ElementCounts == {0, 5}

FunctionTargets(t) ==
    IF th[t].hist = <<>> THEN {0, KnownOrdinal} ELSE Handles(t)

ParamNames == {"", "p"}

ParamTypes == {Primitive("Int32"), Existing(0), ForwardRef("Node")}

ReturnTypes == ParamTypes \cup {Existing(KnownOrdinal)}

CallingConventions == {CallingConvention("Cdecl"), Custom(5)}

EnumConfig(t) ==
    \/ \E name \in EnumNames, w \in EnumWidthInputs : EnumBuilder_new(t, name, w)
    \/ \E name \in MemberNames, v \in MemberValues : EnumBuilder_member(t, name, v)
    \/ \E name \in MemberNames : EnumBuilder_auto_member(t, name)

EnumBuild(t) ==
    \/ EnumBuilder_build(t)
    \/ EnumBuilder_build_create(t)
    \/ EnumBuilder_build_add_member(t)
    \/ EnumBuilder_build_finalize(t)

DerivedConfig(t) ==
    \/ \E ft \in TargetTypes(t), n \in ElementCounts : ArrayBuilder_new(t, ft, n)
    \/ \E ft \in TargetTypes(t) : PointerBuilder_new(t, ft)
    \/ \E o \in FunctionTargets(t) : FunctionPointerBuilder_new(t, o)

DerivedBuild(t) ==
    \/ ArrayBuilder_build(t)
    \/ ArrayBuilder_build_create(t)
    \/ PointerBuilder_build(t)
    \/ PointerBuilder_build_create(t)
    \/ FunctionPointerBuilder_build(t)

FunctionConfig(t) ==
    \/ FunctionBuilder_new(t)
    \/ \E ft \in ReturnTypes : FunctionBuilder_returns(t, ft)
    \/ \E name \in ParamNames, ft \in ParamTypes : FunctionBuilder_param(t, name, ft)
    \/ \E name \in ParamNames :
            FunctionBuilder_hidden_param(t, name, Existing(KnownOrdinal))
    \/ \E cc \in CallingConventions : FunctionBuilder_calling_convention(t, cc)
    \/ \E v \in BOOLEAN : FunctionBuilder_vararg(t, v)
    \/ \E a \in AttributeNames : FunctionBuilder_attribute(t, a)

FunctionBuild(t) ==
    \/ FunctionBuilder_build(t)
    \/ FunctionBuilder_build_return(t)
    \/ FunctionBuilder_build_create(t)
    \/ FunctionBuilder_build_resolve(t)
    \/ FunctionBuilder_build_add_parameter(t)
    \/ FunctionBuilder_build_attributes(t)

\* A configuration call of any builder.
Configure(t) ==
    StructConfig(t) \/ EnumConfig(t) \/ DerivedConfig(t) \/ FunctionConfig(t)

\* A step of build() of any builder.
Build(t) == StructBuild(t) \/ EnumBuild(t) \/ DerivedBuild(t) \/ FunctionBuild(t)

Next == Configure(Main) \/ Build(Main)

Spec == Init /\ [][Next]_vars


\* -------------------------------------- specification of the overlap check

\* (bit_offset, bit_width) pairs around the boundaries of the overlap test:
\* [0,4) [2,6) [4,8) [0,8) [2,4), empty ranges at 0, 2 and 4, and two ranges
\* whose end lies beyond 2^32 - 1: [2^32-2, 2^32+2) and [2, 2^32+1).
WideBitRanges ==
    {<<U32(0, 0), U32(0, 4)>>, <<U32(0, 2), U32(0, 4)>>,
     <<U32(0, 4), U32(0, 4)>>, <<U32(0, 0), U32(0, 8)>>,
     <<U32(0, 2), U32(0, 2)>>, <<U32(0, 0), U32(0, 0)>>,
     <<U32(0, 2), U32(0, 0)>>, <<U32(0, 4), U32(0, 0)>>,
     <<U32(LimbMax, LimbMax - 1), U32(0, 4)>>,
     <<U32(0, 2), U32(LimbMax, LimbMax)>>}

WideBitfieldNames == {"f", "g", "h"}

BitsConfig(t) ==
    \/ StructBuilder_new(t, "Node")
    \/ StructBuilder_field(t, "a", Primitive("Int32"))
    \/ \E name \in WideBitfieldNames, r \in WideBitRanges :
            StructBuilder_bitfield(t, name, r[1], r[2], TRUE)

BitsNext == BitsConfig(Main) \/ StructBuild(Main)

\* Struct builders with bitfields drawn from WideBitRanges, submitted.
SpecBits == Init /\ [][BitsNext]_vars

\* ------------------------------------------------------------------ claims

\* The catalog calls thread t has issued for the builder it holds.
SubLog(t) ==
    LET mine(e) == e.t = t
    IN  SelectSeq(SubSeq(log, th[t].mark + 1, Len(log)), mine)

\* build() has been entered on the builder thread t holds.
Submitted(t) == th[t].pc \notin {"idle", "config", "ready", "aborted"}

\* build() has returned an error and the catalog has seen no call from it.
RejectedUntouched(t) ==
    /\ th[t].pc = "done"
    /\ th[t].res.tag = "err"
    /\ SubLog(t) = <<>>

\* The names of the combined field + bitfield list of a struct builder.
CombinedNames(b) ==
    [k \in 1..(Len(b.fields) + Len(b.bitfields)) |->
        IF k <= Len(b.fields) THEN b.fields[k].name
                              ELSE b.bitfields[k - Len(b.fields)].name]

SameNameTwice(b) ==
    \E i, j \in DOMAIN CombinedNames(b) :
        i < j /\ CombinedNames(b)[i] = CombinedNames(b)[j]

\* C1: a struct/union builder in which two entries of the combined field and
\* bitfield list carry the same name is rejected by build() with an error, and
\* no catalog operation has been called for it.
C1_DuplicateNameRejected ==
    \A t \in Threads :
        (th[t].b.kind = "struct" /\ Submitted(t) /\ SameNameTwice(th[t].b))
            => RejectedUntouched(t)

\* A named struct with a field and a bitfield of the same name was rejected.
C1_Witness ==
    \E t \in Threads :
        /\ th[t].b.kind = "struct"
        /\ th[t].b.name # ""
        /\ \E i \in DOMAIN th[t].b.fields, j \in DOMAIN th[t].b.bitfields :
                th[t].b.fields[i].name = th[t].b.bitfields[j].name
        /\ RejectedUntouched(t)

\* The true end bit_offset + bit_width of a bitfield's range, as a 33-bit value.
TrueEnd(bf) == U32TrueSum(bf.bit_offset, bf.bit_width)

\* The half-open ranges [bit_offset, bit_offset + bit_width) of x and y have
\* a bit in common.
ShareABit(x, y) ==
    /\ U33Lt(U33(x.bit_offset), TrueEnd(x))
    /\ U33Lt(U33(y.bit_offset), TrueEnd(y))
    /\ U33Lt(U33(x.bit_offset), TrueEnd(y))
    /\ U33Lt(U33(y.bit_offset), TrueEnd(x))

SomeBitfieldsShareABit(b) ==
    \E i, j \in DOMAIN b.bitfields : i < j /\ ShareABit(b.bitfields[i], b.bitfields[j])

\* C2: a struct builder holding two bitfields whose half-open bit ranges share
\* at least one bit is rejected by build() with an error before any catalog
\* call is made.
C2_OverlapRejected ==
    \A t \in Threads :
        (th[t].b.kind = "struct" /\ Submitted(t) /\ SomeBitfieldsShareABit(th[t].b))
            => RejectedUntouched(t)

\* C3: a struct builder with a non-empty name and unique field and bitfield
\* names whose bitfield ranges are pairwise disjoint as sets of bits (any
\* offsets, any widths, width 0 and touching ranges included) passes
\* validation: build() neither panics nor returns a validation error.
C3_DisjointAccepted ==
    \A t \in Threads :
        ( /\ th[t].b.kind = "struct"
          /\ Submitted(t)
          /\ th[t].b.name # ""
          /\ ~SameNameTwice(th[t].b)
          /\ ~SomeBitfieldsShareABit(th[t].b) )
            => /\ th[t].pc # "panicked"
               /\ ~(th[t].pc = "done" /\ th[t].res.msg = "bitfield overlaps")

\* Some field of the struct builder is a ForwardRef naming another type.
HasForeignRef(b) ==
    \E k \in DOMAIN b.fields :
        /\ b.fields[k].field_type.tag = "ForwardRef"
        /\ b.fields[k].field_type.name # b.name

\* C4: a struct/union builder with a ForwardRef field naming a type other than
\* the aggregate itself makes build() fail with the catalog left untouched: no
\* catalog call has been issued when the error is returned.
C4_ForeignRefRejectedUntouched ==
    \A t \in Threads :
        (th[t].b.kind = "struct" /\ HasForeignRef(th[t].b) /\ th[t].pc = "done")
            => RejectedUntouched(t)

\* C5: a function-signature builder with both the constructor and the
\* destructor attribute set is rejected by build() with an error before
\* create_function or any other catalog operation is called.
C5_CtorDtorRejected ==
    \A t \in Threads :
        ( /\ th[t].b.kind = "function"
          /\ Submitted(t)
          /\ th[t].b.attributes.is_constructor
          /\ th[t].b.attributes.is_destructor )
            => RejectedUntouched(t)

\* A builder marked constructor and destructor was rejected for that reason.
C5_Witness ==
    \E t \in Threads :
        /\ th[t].b.kind = "function"
        /\ th[t].b.attributes.is_constructor
        /\ th[t].b.attributes.is_destructor
        /\ RejectedUntouched(t)
        /\ th[t].res.msg = "both constructor and destructor"

UniqueMemberNames(b) ==
    \A i, j \in DOMAIN b.members : i # j => b.members[i].name # b.members[j].name

\* C6: an enum builder whose width is not 1, 2, 4 or 8 is rejected by build()
\* with no catalog call issued; with a width in {1,2,4,8}, a non-empty name and
\* unique member names validation passes, and the first catalog call of the
\* submission is create_enum with the builder's name and exactly that width.
C6_EnumWidth ==
    \A t \in Threads :
        (th[t].b.kind = "enum" /\ Submitted(t)) =>
            /\ th[t].b.width \notin {1, 2, 4, 8} => RejectedUntouched(t)
            /\ ( /\ th[t].b.width \in {1, 2, 4, 8}
                 /\ th[t].b.name # ""
                 /\ UniqueMemberNames(th[t].b) )
                 => IF SubLog(t) = <<>>
                    THEN th[t].pc = "create"
                    ELSE /\ SubLog(t)[1].op = "create_enum"
                         /\ SubLog(t)[1].args.width = th[t].b.width
                         /\ SubLog(t)[1].args.name = th[t].b.name

\* An enum of width 4 with two members was created and returned.
C6_Witness ==
    \E t \in Threads :
        /\ th[t].b.kind = "enum"
        /\ th[t].b.width = 4
        /\ Len(th[t].b.members) = 2
        /\ th[t].pc = "done"
        /\ th[t].res.tag = "ok"
        /\ SubLog(t)[1].op = "create_enum"
        /\ SubLog(t)[1].args.width = 4

\* w is v + 1 on 64-bit two's-complement values: the limbs below some position
\* roll over from all-ones to zero, the limb at that position grows by one and
\* the limbs above it are unchanged; all-ones rolls over to zero.
IsSuccessor(v, w) ==
    \/ \E k \in 1..4 :
          /\ v[k] < LimbMax
          /\ w[k] = v[k] + 1
          /\ \A j \in 1..4 : j < k => w[j] = v[j]
          /\ \A j \in 1..4 : j > k => v[j] = LimbMax /\ w[j] = 0
    \/ /\ \A j \in 1..4 : v[j] = LimbMax
       /\ \A j \in 1..4 : w[j] = 0

\* C7: every auto_member call that completes appends one member whose value is
\* 0 when it is the first member of the builder and otherwise the value of the
\* immediately preceding member (explicit or auto) plus 1, in 64-bit
\* two's-complement arithmetic, whatever the enum width and the catalog state.
C7_AutoMemberValue ==
    [][\A t \in Threads, name \in MemberNames :
          (EnumBuilder_auto_member(t, name) /\ th'[t].pc # "aborted") =>
              LET before == th[t].b.members
                  after  == th'[t].b.members
                  k      == Len(after)
              IN  /\ k = Len(before) + 1
                  /\ SubSeq(after, 1, k - 1) = before
                  /\ after[k].name = name
                  /\ IF k = 1 THEN after[k].value = <<0, 0, 0, 0>>
                               ELSE IsSuccessor(after[k - 1].value, after[k].value)
                  /\ log' = log /\ next_ord' = next_ord]_vars

\* member("x", 100) followed by auto_member("y") holds the values 100 and 101.
C7_Witness ==
    \E t \in Threads :
        /\ th[t].b.kind = "enum"
        /\ Len(th[t].b.members) = 2
        /\ th[t].b.members[1].value = <<0, 0, 0, 100>>
        /\ th[t].b.members[2].value = <<0, 0, 0, 101>>
        /\ th[t].b.members[2].name = "y"

\* The sum over the type_size calls among the first p calls of L of the size
\* reported, with 8 in place of a reported 0.
RECURSIVE StrideSum(_, _)
StrideSum(L, p) ==
    IF p = 0 THEN 0
    ELSE StrideSum(L, p - 1)
         + (IF L[p].op = "type_size"
            THEN (IF L[p].ret = 0 THEN 8 ELSE L[p].ret)
            ELSE 0)

\* How many calls named op are among the first p calls of L.
CountOp(L, p, op) == Cardinality({q \in 1..p : L[q].op = op})

AllAutoOffsets(b) == \A k \in DOMAIN b.fields : ~b.fields[k].offset.some

\* C8: in a struct (not union) submission whose fields all use automatic
\* offsets, the i-th add_field call is for the i-th field and carries as byte
\* offset the sum, over the fields declared before it, of the size type_size
\* reported for that field's resolved type, 8 standing in for a reported 0; one
\* type_size query per earlier field, each about the type just added.
C8_AutoOffsets ==
    \A t \in Threads :
        ( /\ th[t].b.kind = "struct"
          /\ ~th[t].b.is_union
          /\ AllAutoOffsets(th[t].b) ) =>
            LET L == SubLog(t)
            IN  \A p \in DOMAIN L :
                  /\ L[p].op = "add_field" =>
                        LET i == CountOp(L, p, "add_field")
                        IN  /\ L[p].args.name = th[t].b.fields[i].name
                            /\ CountOp(L, p, "type_size") = i - 1
                            /\ L[p].args.offset = StrideSum(L, p)
                  /\ L[p].op = "type_size" =>
                        /\ L[p - 1].op = "add_field"
                        /\ L[p].args.ordinal = L[p - 1].args.type

\* Two auto-offset fields whose first type reported size 0: offsets 0 and 8.
C8_Witness ==
    \E t \in Threads :
        /\ th[t].b.kind = "struct"
        /\ ~th[t].b.is_union
        /\ AllAutoOffsets(th[t].b)
        /\ \E p, q \in DOMAIN SubLog(t) :
              /\ p < q
              /\ SubLog(t)[p].op = "add_field" /\ SubLog(t)[p].args.offset = 0
              /\ SubLog(t)[p + 1].op = "type_size" /\ SubLog(t)[p + 1].ret = 0
              /\ SubLog(t)[q].op = "add_field" /\ SubLog(t)[q].args.offset = 8

\* The field of struct builder b called name is a self-reference.
IsSelfRefField(b, name) ==
    \E k \in DOMAIN b.fields :
        /\ b.fields[k].name = name
        /\ b.fields[k].field_type.tag = "ForwardRef"
        /\ b.fields[k].field_type.name = b.name

\* The calls issued before the builder thread t holds was made.
EarlierLog(t) == SubSeq(log, 1, th[t].mark)

\* Thread t holds a pointer builder, built and returned, whose target is the
\* handle returned for an earlier struct with a self-reference field.
IndependentPointerBuilt(t) ==
    /\ th[t].b.kind = "pointer"
    /\ th[t].pc = "done"
    /\ th[t].res.tag = "ok"
    /\ th[t].b.target_type.tag = "Existing"
    /\ \E k \in DOMAIN th[t].hist :
          /\ k < Len(th[t].hist)
          /\ th[t].hist[k].b.kind = "struct"
          /\ th[t].hist[k].res = Ok(th[t].b.target_type.ordinal)
          /\ \E f \in DOMAIN th[t].hist[k].b.fields :
                IsSelfRefField(th[t].hist[k].b, th[t].hist[k].b.fields[f].name)

\* C9 as stated: the field-type ordinal passed to add_field for a self_ref
\* field of struct N equals the ordinal of a PointerBuilder built independently
\* against the handle returned for N.
C9_SelfRefEqualsIndependent ==
    \A t \in Threads :
        IndependentPointerBuilt(t) =>
            \A p \in DOMAIN EarlierLog(t) :
                ( /\ EarlierLog(t)[p].op = "create_pointer"
                  /\ EarlierLog(t)[p].args.target = th[t].b.target_type.ordinal )
                    => EarlierLog(t)[p].ret = th[t].res.ordinal

\* C9: for a struct named N with a self_ref field, the field-type ordinal
\* passed to add_field for that field is the non-zero answer of the
\* create_pointer call issued just before on the shell ordinal N's create call
\* returned in this same submission; a PointerBuilder built independently
\* against the handle returned for N issues create_pointer on that same shell
\* ordinal and returns whatever the catalog answers to that second call.
C9_SelfRefPointer ==
    \A t \in Threads :
        /\ th[t].b.kind = "struct" =>
              LET L == SubLog(t)
              IN  \A p \in DOMAIN L :
                    (L[p].op = "add_field" /\ IsSelfRefField(th[t].b, L[p].args.name))
                        => /\ L[1].op \in {"create_struct", "create_union"}
                           /\ L[p].args.owner = L[1].ret
                           /\ L[p - 1].op = "create_pointer"
                           /\ L[p - 1].args.target = L[1].ret
                           /\ L[p - 1].ret # 0
                           /\ L[p].args.type = L[p - 1].ret
        /\ IndependentPointerBuilt(t) =>
              /\ Len(SubLog(t)) = 1
              /\ SubLog(t)[1].op = "create_pointer"
              /\ SubLog(t)[1].args.target = th[t].b.target_type.ordinal
              /\ SubLog(t)[1].ret = th[t].res.ordinal
              /\ \E p \in DOMAIN EarlierLog(t) :
                    /\ EarlierLog(t)[p].op = "create_pointer"
                    /\ EarlierLog(t)[p].args.target = th[t].b.target_type.ordinal
                    /\ EarlierLog(t)[p + 1].op = "add_field"
                    /\ EarlierLog(t)[p + 1].args.type = EarlierLog(t)[p].ret

\* A struct with a self-reference was built, then a pointer against its handle
\* was built, and the catalog answered the two create_pointer calls on the same
\* shell ordinal with two different ordinals.
C9_Witness ==
    \E t \in Threads :
        /\ IndependentPointerBuilt(t)
        /\ \E p \in DOMAIN EarlierLog(t) :
              /\ EarlierLog(t)[p].op = "create_pointer"
              /\ EarlierLog(t)[p].args.target = SubLog(t)[1].args.target
              /\ EarlierLog(t)[p].ret # 0
              /\ EarlierLog(t)[p].ret # th[t].res.ordinal

\* Messages of the errors found by validation alone.
ValidationErrors ==
    {"empty name", "duplicate field name", "duplicate bitfield name",
     "bitfield overlaps"}

\* C10: a struct builder and its clone hold identical configurations; the
\* clone's submission is validated like the original's, issues its own create
\* call and returns that call's answer; when both submissions succeed against a
\* catalog that allocates a fresh identifier on every create call, the two
\* handles carry distinct ordinals.
C10_CloneDistinct ==
    \A t \in Threads :
        /\ \A k \in DOMAIN th[t].hist :
              (k > 1 /\ th[t].hist[k].cloned) =>
                  LET first == th[t].hist[k - 1]
                      second == th[t].hist[k]
                  IN  /\ second.b = first.b
                      /\ first.res.msg \in ValidationErrors => second.res = first.res
                      /\ second.res.msg \in ValidationErrors => second.res = first.res
                      /\ (first.res.tag = "ok" /\ second.res.tag = "ok")
                            => first.res.ordinal # second.res.ordinal
        /\ (th[t].cloned /\ th[t].pc = "done" /\ th[t].res.tag = "ok") =>
              /\ SubLog(t)[1].op \in {"create_struct", "create_union"}
              /\ SubLog(t)[1].args.name = th[t].b.name
              /\ SubLog(t)[1].ret = th[t].res.ordinal
              /\ \A p \in DOMAIN EarlierLog(t) :
                    EarlierLog(t)[p].op \in {"create_struct", "create_union"}
                        => EarlierLog(t)[p].ret # th[t].res.ordinal

\* A builder with a field and a bitfield and its clone were both submitted with
\* success and returned two different ordinals.
C10_Witness ==
    \E t \in Threads :
        /\ Len(th[t].hist) = 2
        /\ th[t].hist[2].cloned
        /\ th[t].hist[1].b.fields # <<>>
        /\ th[t].hist[1].b.bitfields # <<>>
        /\ th[t].hist[1].res.tag = "ok"
        /\ th[t].hist[2].res.tag = "ok"
        /\ th[t].hist[1].res.ordinal # th[t].hist[2].res.ordinal

\* The return reference or some parameter reference of function builder b is
\* a ForwardRef.
HasForwardRefSignature(b) ==
    \/ b.return_type.some /\ b.return_type.v.tag = "ForwardRef"
    \/ \E k \in DOMAIN b.parameters : b.parameters[k].param_type.tag = "ForwardRef"

\* C11: a function-signature builder whose return reference or any parameter
\* reference is a ForwardRef makes build() fail with the catalog untouched:
\* when the error is returned neither create_function nor add_parameter has
\* been called, whatever the position of the offending parameter.
C11_ForwardRefSignatureUntouched ==
    \A t \in Threads :
        ( /\ th[t].b.kind = "function"
          /\ HasForwardRefSignature(th[t].b)
          /\ th[t].pc = "done" )
            => /\ th[t].res.tag = "err"
               /\ \A p \in DOMAIN SubLog(t) :
                     SubLog(t)[p].op \notin {"create_function", "add_parameter"}

\* C12: a successful function-signature submission ends with a finalize call
\* on the function shell ordinal, issued after set_function_attributes and
\* before the handle is returned.
C12_FunctionFinalized ==
    \A t \in Threads :
        (th[t].b.kind = "function" /\ th[t].pc = "done" /\ th[t].res.tag = "ok")
            => LET L == SubLog(t)
               IN  /\ Len(L) >= 3
                   /\ L[Len(L)].op = "finalize"
                   /\ L[Len(L)].args.ordinal = th[t].res.ordinal
                   /\ L[Len(L) - 1].op = "set_function_attributes"

\* Two parameters of b carry the same non-empty name.
SameParameterNameTwice(b) ==
    \E i, j \in DOMAIN b.parameters :
        /\ i # j
        /\ b.parameters[i].name # ""
        /\ b.parameters[i].name = b.parameters[j].name

\* C13: two parameters with the same non-empty name make build() fail before
\* any catalog call; without such a pair, whatever the number of parameters
\* with the empty name (hidden or not), build() never fails on uniqueness.
C13_ParameterNames ==
    \A t \in Threads :
        (th[t].b.kind = "function" /\ Submitted(t)) =>
            /\ SameParameterNameTwice(th[t].b) => RejectedUntouched(t)
            /\ ~SameParameterNameTwice(th[t].b)
                    => th[t].res.msg # "duplicate parameter name"

\* Two parameters with the empty name, one of them hidden, were accepted and
\* added to a function shell.
C13_Witness ==
    \E t \in Threads :
        /\ th[t].b.kind = "function"
        /\ Len(th[t].b.parameters) = 2
        /\ th[t].b.parameters[1].name = ""
        /\ th[t].b.parameters[2].name = ""
        /\ th[t].b.parameters[1].is_hidden # th[t].b.parameters[2].is_hidden
        /\ th[t].pc = "done"
        /\ th[t].res.tag = "ok"

\* C14: no configuration call of any builder (new, field, field_at, bitfield,
\* self_ref, is_union, member, auto_member, returns, param, hidden_param,
\* calling_convention, vararg, the attribute setters) issues a catalog
\* operation: every step that leaves the caller with a builder not yet
\* submitted (a constructor, a chained call, a clone) leaves the log of catalog
\* calls and the catalog's allocation state unchanged.
C14_ConfigurationIsLocal ==
    [][\A t \in Threads :
          (th'[t] # th[t] /\ ~Submitted(t)') => catalog' = catalog]_vars

\* A struct builder that received a field and a bitfield, not yet submitted,
\* with no catalog call issued.
C14_Witness ==
    \E t \in Threads :
        /\ th[t].pc = "config"
        /\ th[t].b.kind = "struct"
        /\ Len(th[t].b.fields) = 1
        /\ Len(th[t].b.bitfields) = 1
        /\ log = <<>>
        /\ next_ord = FirstFresh

\* C15: a struct/union builder or an enum builder whose name is the empty
\* string makes build() return an error with no catalog call issued, whatever
\* its fields, bitfields, members or width.
C15_EmptyNameRejected ==
    \A t \in Threads :
        ( /\ th[t].b.kind \in {"struct", "enum"}
          /\ th[t].b.name = ""
          /\ Submitted(t) )
            => RejectedUntouched(t)

\* An enum with the empty name, a valid width and a member was rejected with
\* no catalog call.
C15_Witness ==
    \E t \in Threads :
        /\ th[t].b.kind = "enum"
        /\ th[t].b.name = ""
        /\ th[t].b.width = 4
        /\ Len(th[t].b.members) = 1
        /\ RejectedUntouched(t)
        /\ th[t].res.msg = "empty name"

\* The catalog call e of an aggregate submission failed: a create answered 0,
\* a reference resolved to 0, or an add or finalize answered false.
CallFailed(e) ==
    IF e.op \in {"create_struct", "create_union", "create_pointer",
                 "primitive_ordinal"}
    THEN e.ret = 0
    ELSE IF e.op \in {"add_field", "add_bitfield", "finalize"}
    THEN e.ret = FALSE
    ELSE FALSE

\* The operations an aggregate submission may call: none of them removes or
\* reverts anything.
AggregateOps ==
    {"create_struct", "create_union", "primitive_ordinal", "create_pointer",
     "add_field", "type_size", "add_bitfield", "finalize"}

\* C16: when a catalog call of a struct/union submission fails (create returns
\* 0, a field type resolves to ordinal 0, add_field, add_bitfield or finalize
\* returns false), the failing call is the last call of the submission and
\* build() has returned an error: no add, no finalize and no undoing call
\* follows it.
C16_FailureStops ==
    \A t \in Threads :
        th[t].b.kind = "struct" =>
            LET L == SubLog(t)
            IN  /\ \A p \in DOMAIN L :
                      /\ L[p].op \in AggregateOps
                      /\ CallFailed(L[p]) =>
                            /\ p = Len(L)
                            /\ th[t].pc = "done"
                            /\ th[t].res.tag = "err"
                /\ \A k \in DOMAIN th[t].b.fields :
                      th[t].b.fields[k].field_type = Existing(0) =>
                          /\ CountOp(L, Len(L), "add_field") < k
                          /\ CountOp(L, Len(L), "add_bitfield") = 0
                          /\ CountOp(L, Len(L), "finalize") = 0
                          /\ th[t].pc = "done" => th[t].res.tag = "err"

\* A struct with a field and a bitfield whose add_field was refused: the
\* submission ended there, with an error.
C16_Witness ==
    \E t \in Threads :
        /\ th[t].b.kind = "struct"
        /\ Len(th[t].b.fields) = 1
        /\ Len(th[t].b.bitfields) = 1
        /\ th[t].pc = "done"
        /\ th[t].res.tag = "err"
        /\ Len(SubLog(t)) >= 2
        /\ SubLog(t)[Len(SubLog(t))].op = "add_field"
        /\ SubLog(t)[Len(SubLog(t))].ret = FALSE

\* The calls named op of L, in the order they were issued.
CallsOf(L, op) == LET wanted(e) == e.op = op IN SelectSeq(L, wanted)

\* C17: in every successful struct/union submission the first catalog call is
\* the only create (create_union when the is-union flag is set, create_struct
\* otherwise); then one add_field per field in declaration order; after the
\* last add_field, one add_bitfield per bitfield in declaration order with its
\* raw bit offset, width and signedness; the last call is the only finalize, on
\* the shell ordinal; and the handle returned wraps that shell ordinal.
C17_AggregateCallOrder ==
    \A t \in Threads :
        (th[t].b.kind = "struct" /\ th[t].pc = "done" /\ th[t].res.tag = "ok") =>
            LET L == SubLog(t)
                b == th[t].b
                shell == L[1].ret
                adds == CallsOf(L, "add_field")
                bits == CallsOf(L, "add_bitfield")
            IN  /\ L[1].op = (IF b.is_union THEN "create_union" ELSE "create_struct")
                /\ L[1].args.name = b.name
                /\ CountOp(L, Len(L), "create_struct")
                     + CountOp(L, Len(L), "create_union") = 1
                /\ Len(adds) = Len(b.fields)
                /\ \A k \in DOMAIN adds :
                      /\ adds[k].args.name = b.fields[k].name
                      /\ adds[k].args.owner = shell
                /\ Len(bits) = Len(b.bitfields)
                /\ \A k \in DOMAIN bits :
                      /\ bits[k].args.owner = shell
                      /\ bits[k].args.name = b.bitfields[k].name
                      /\ bits[k].args.bit_offset = b.bitfields[k].bit_offset
                      /\ bits[k].args.bit_width = b.bitfields[k].bit_width
                      /\ bits[k].args.is_unsigned = b.bitfields[k].is_unsigned
                /\ \A p, q \in DOMAIN L :
                      (L[p].op = "add_field" /\ L[q].op = "add_bitfield") => p < q
                /\ L[Len(L)].op = "finalize"
                /\ L[Len(L)].args.ordinal = shell
                /\ CountOp(L, Len(L), "finalize") = 1
                /\ th[t].res.ordinal = shell

\* A struct with one field and one signed bitfield was submitted with success.
C17_Witness ==
    \E t \in Threads :
        /\ th[t].b.kind = "struct"
        /\ ~th[t].b.is_union
        /\ Len(th[t].b.fields) = 1
        /\ Len(th[t].b.bitfields) = 1
        /\ ~th[t].b.bitfields[1].is_unsigned
        /\ th[t].pc = "done"
        /\ th[t].res.tag = "ok"
        /\ Len(CallsOf(SubLog(t), "add_bitfield")) = 1

\* C18: a builder submitted as a union never passes a caller-chosen offset or
\* a bitfield to the catalog, whatever the position of the is_union calls in
\* the configuration: every add_field call of a union submission carries byte
\* offset 0 and no add_bitfield call is issued.
C18_UnionOffsetsZero ==
    \A t \in Threads :
        (th[t].b.kind = "struct" /\ th[t].b.is_union /\ Submitted(t)) =>
            \A p \in DOMAIN SubLog(t) :
                /\ SubLog(t)[p].op = "add_field" => SubLog(t)[p].args.offset = 0
                /\ SubLog(t)[p].op # "add_bitfield"

\* How many of the first k fields of b use an automatic offset.
AutoFieldsUpTo(b, k) == Cardinality({j \in 1..k : ~b.fields[j].offset.some})

\* C19: in a struct (not union) submission a field with an explicit offset is
\* added at exactly that offset and no type_size query is made for it, so the
\* running cursor is left as it was; an auto-offset field is added at the sum
\* of the strides of the auto-offset fields declared before it, and exactly
\* those fields have been queried for their size.
C19_ExplicitOffsets ==
    \A t \in Threads :
        (th[t].b.kind = "struct" /\ ~th[t].b.is_union) =>
            LET L == SubLog(t)
                b == th[t].b
            IN  \A p \in DOMAIN L :
                  /\ L[p].op = "add_field" =>
                        LET i == CountOp(L, p, "add_field")
                            f == b.fields[i]
                        IN  /\ L[p].args.name = f.name
                            /\ CountOp(L, p, "type_size") = AutoFieldsUpTo(b, i - 1)
                            /\ IF f.offset.some
                               THEN /\ L[p].args.offset = f.offset.v
                                    /\ p < Len(L) => L[p + 1].op # "type_size"
                               ELSE L[p].args.offset = StrideSum(L, p)
                  /\ L[p].op = "type_size" =>
                        /\ L[p - 1].op = "add_field"
                        /\ ~b.fields[CountOp(L, p, "add_field")].offset.some

\* A field placed at offset 16 was added there, and the auto-offset field
\* declared after it was added at offset 0.
C19_Witness ==
    \E t \in Threads :
        /\ th[t].b.kind = "struct"
        /\ ~th[t].b.is_union
        /\ Len(th[t].b.fields) = 2
        /\ th[t].b.fields[1].offset = Some(16)
        /\ ~th[t].b.fields[2].offset.some
        /\ LET adds == CallsOf(SubLog(t), "add_field")
           IN  /\ Len(adds) = 2
               /\ adds[1].args.offset = 16
               /\ adds[2].args.offset = 0

\* C20: create_function is called with return ordinal 0 if and only if no
\* return reference was configured on the builder; a configured return
\* reference that resolves to ordinal 0 makes build() return an error and the
\* function shell is not created.
C20_VoidOnlyWhenUnset ==
    \A t \in Threads :
        th[t].b.kind = "function" =>
            \A p \in DOMAIN SubLog(t) :
                SubLog(t)[p].op = "create_function" =>
                    (SubLog(t)[p].args.return_type = 0 <=> ~th[t].b.return_type.some)

\* The position in L of the k-th call named op.
PosOf(L, op, k) ==
    CHOOSE q \in DOMAIN L : L[q].op = op /\ CountOp(L, q, op) = k

\* The call at position q of L passes as type ordinal what the reference ft
\* resolved to: the answer of the primitive_ordinal query issued just before
\* for a primitive, the handle's own ordinal for an existing type.
PassesResolved(L, q, ft, passed) ==
    IF ft.tag = "Primitive"
    THEN /\ q > 1
         /\ L[q - 1].op = "primitive_ordinal"
         /\ L[q - 1].args.code = to_ida_type(ft.prim)
         /\ passed = L[q - 1].ret
    ELSE /\ ft.tag = "Existing"
         /\ passed = ft.ordinal

\* C21: in every successful function-signature submission create_function is
\* called once, with the resolved return ordinal (0 when no return reference
\* was set), the code of the calling convention the builder holds (Unknown if
\* none was set) and its vararg flag; then add_parameter is called once per
\* parameter in declaration order with that parameter's name, resolved type
\* ordinal and hidden flag; then set_function_attributes is called exactly
\* once, last, with the seven attribute flags of the builder.
C21_FunctionCallOrder ==
    \A t \in Threads :
        (th[t].b.kind = "function" /\ th[t].pc = "done" /\ th[t].res.tag = "ok") =>
            LET L == SubLog(t)
                b == th[t].b
                c == PosOf(L, "create_function", 1)
                shell == L[c].ret
                adds == CallsOf(L, "add_parameter")
            IN  /\ CountOp(L, Len(L), "create_function") = 1
                /\ IF b.return_type.some
                   THEN PassesResolved(L, c, b.return_type.v, L[c].args.return_type)
                   ELSE c = 1 /\ L[c].args.return_type = 0
                /\ L[c].args.cc = to_ida_cc(b.calling_convention)
                /\ L[c].args.is_vararg = b.is_vararg
                /\ Len(adds) = Len(b.parameters)
                /\ \A k \in DOMAIN adds :
                      LET q == PosOf(L, "add_parameter", k)
                      IN  /\ q > c
                          /\ adds[k].args.owner = shell
                          /\ adds[k].args.name = b.parameters[k].name
                          /\ adds[k].args.is_hidden = b.parameters[k].is_hidden
                          /\ PassesResolved(L, q, b.parameters[k].param_type,
                                            adds[k].args.type)
                /\ CountOp(L, Len(L), "set_function_attributes") = 1
                /\ L[Len(L)].op = "set_function_attributes"
                /\ L[Len(L)].args.owner = shell
                /\ L[Len(L)].args.attributes = b.attributes
                /\ DOMAIN b.attributes = AttributeNames
                /\ th[t].res.ordinal = shell

\* A signature with a custom calling convention and one hidden parameter was
\* submitted with success.
C21_Witness ==
    \E t \in Threads :
        /\ th[t].b.kind = "function"
        /\ th[t].b.calling_convention = Custom(5)
        /\ Len(th[t].b.parameters) = 1
        /\ th[t].b.parameters[1].is_hidden
        /\ th[t].pc = "done"
        /\ th[t].res.tag = "ok"
        /\ Len(CallsOf(SubLog(t), "add_parameter")) = 1

\* C22: the catalog calls of an enum submission are, in this order, one
\* create_enum with the builder's name and width, one add_enum_member per
\* member in declaration order carrying that member's signed 64-bit value, and
\* one finalize on the enum ordinal; a successful submission has issued exactly
\* these calls and returns the enum ordinal; when create_enum, an
\* add_enum_member or finalize fails, it is the last call and build() has
\* returned an error.
C22_EnumCallOrder ==
    \A t \in Threads :
        th[t].b.kind = "enum" =>
            LET L == SubLog(t)
                b == th[t].b
                n == Len(b.members)
            IN  /\ Len(L) <= n + 2
                /\ \A p \in DOMAIN L :
                      /\ p = 1 =>
                            /\ L[p].op = "create_enum"
                            /\ L[p].args.name = b.name
                            /\ L[p].args.width = b.width
                            /\ L[p].ret = 0 =>
                                  (Len(L) = 1 /\ th[t].pc = "done"
                                      /\ th[t].res.tag = "err")
                      /\ (p > 1 /\ p <= n + 1) =>
                            /\ L[p].op = "add_enum_member"
                            /\ L[p].args.owner = L[1].ret
                            /\ L[p].args.name = b.members[p - 1].name
                            /\ L[p].args.value = b.members[p - 1].value
                            /\ L[p].ret = FALSE =>
                                  (Len(L) = p /\ th[t].pc = "done"
                                      /\ th[t].res.tag = "err")
                      /\ p = n + 2 =>
                            /\ L[p].op = "finalize"
                            /\ L[p].args.ordinal = L[1].ret
                            /\ th[t].pc = "done"
                            /\ th[t].res = (IF L[p].ret THEN Ok(L[1].ret)
                                                        ELSE Err("finalize failed"))
                /\ (th[t].pc = "done" /\ th[t].res.tag = "ok") =>
                      (Len(L) = n + 2 /\ th[t].res.ordinal = L[1].ret)

\* An enum with an explicit member and an auto member was submitted with
\* success: create_enum, two add_enum_member calls, finalize.
C22_Witness ==
    \E t \in Threads :
        /\ th[t].b.kind = "enum"
        /\ Len(th[t].b.members) = 2
        /\ th[t].b.members[2].value = <<0, 0, 0, 101>>
        /\ th[t].pc = "done"
        /\ th[t].res.tag = "ok"
        /\ Len(SubLog(t)) = 4
        /\ SubLog(t)[3].args.value = <<0, 0, 0, 101>>

\* C23: auto_member never fails or aborts, whatever the value of the preceding
\* member: called when the last member holds 2^63 - 1 it completes and the
\* builder goes on with the wrapped value -2^63.
C23_AutoMemberNeverAborts ==
    \A t \in Threads : th[t].b.kind = "enum" => th[t].pc # "aborted"

\* The builder b with its two bitfields declared in the other order.
SwappedBitfields(b) ==
    [b EXCEPT !.bitfields = <<b.bitfields[2], b.bitfields[1]>>]

\* C24: the outcome of the bitfield overlap check is symmetric: a struct
\* declaring bitfield A before bitfield B (any offsets and widths, width 0
\* included) is rejected for overlap if and only if the struct declaring B
\* before A is rejected for overlap.
C24_OverlapSymmetric ==
    \A t \in Threads :
        ( /\ th[t].b.kind = "struct"
          /\ Submitted(t)
          /\ Len(th[t].b.bitfields) = 2 )
            => ( th[t].res.msg = "bitfield overlaps"
                 <=> StructBuilder_validate(SwappedBitfields(th[t].b),
                                            overflow_checks).msg = "bitfield overlaps" )

\* The reference an array or pointer builder was given.
TargetOf(b) == IF b.kind = "array" THEN b.element_type ELSE b.target_type

\* The create call an array or pointer builder issues for the resolved
\* ordinal o.
IsCreateFor(b, e, o) ==
    IF b.kind = "array"
    THEN /\ e.op = "create_array"
         /\ e.args.element = o
         /\ e.args.count = b.num_elements
    ELSE /\ e.op = "create_pointer"
         /\ e.args.target = o

\* After the resolution left the calls `before`, the submission issues exactly
\* one create call for o and returns its answer as the handle, or an error
\* when the answer is 0.
CreatesOnce(t, before, o) ==
    LET L == SubLog(t)
    IN  IF th[t].pc = "done"
        THEN /\ Len(L) = before + 1
             /\ IsCreateFor(th[t].b, L[before + 1], o)
             /\ th[t].res = (IF L[before + 1].ret = 0 THEN Err("create failed")
                                                    ELSE Ok(L[before + 1].ret))
        ELSE Len(L) = before /\ th[t].pc = "create"

\* C25: an array or pointer builder whose target is a ForwardRef fails with no
\* catalog call at all; one whose target is an Existing handle of ordinal 0,
\* or a primitive that resolves to ordinal 0, fails without calling
\* create_array / create_pointer; otherwise exactly one
\* create_array(element_ordinal, count) or create_pointer(target_ordinal) call
\* is issued, the caller's element count passed as it is, 0 included.
C25_DerivedBuilders ==
    \A t \in Threads :
        (th[t].b.kind \in {"array", "pointer"} /\ Submitted(t)) =>
            LET L == SubLog(t)
                ft == TargetOf(th[t].b)
            IN  CASE ft.tag = "ForwardRef" -> RejectedUntouched(t)
                  [] ft.tag = "Existing" ->
                        IF ft.ordinal = 0 THEN RejectedUntouched(t)
                                          ELSE CreatesOnce(t, 0, ft.ordinal)
                  [] ft.tag = "Primitive" ->
                        /\ Len(L) >= 1
                        /\ L[1].op = "primitive_ordinal"
                        /\ L[1].args.code = to_ida_type(ft.prim)
                        /\ IF L[1].ret = 0
                           THEN /\ Len(L) = 1
                                /\ th[t].pc = "done"
                                /\ th[t].res.tag = "err"
                           ELSE CreatesOnce(t, 1, L[1].ret)

\* An array of 0 elements of a primitive type was created and returned.
C25_Witness ==
    \E t \in Threads :
        /\ th[t].b.kind = "array"
        /\ th[t].b.num_elements = 0
        /\ th[t].b.element_type.tag = "Primitive"
        /\ th[t].pc = "done"
        /\ th[t].res.tag = "ok"
        /\ SubLog(t)[2].op = "create_array"
        /\ SubLog(t)[2].args.count = 0

\* The create operations of each kind of builder.
CreateOps(kind) ==
    CASE kind = "struct"   -> {"create_struct", "create_union"}
      [] kind = "enum"     -> {"create_enum"}
      [] kind = "array"    -> {"create_array"}
      [] kind = "pointer"  -> {"create_pointer"}
      [] kind = "function" -> {"create_function"}
      [] kind = "funcptr"  -> {"create_function_pointer"}

\* C26: every handle returned by a successful build() of any builder
\* (struct/union, enum, array, pointer, function, function pointer) carries a
\* non-zero ordinal, the one its own create call returned in this submission;
\* build() never returns Ok with ordinal 0, whatever the catalog answers.
C26_HandleIsOwnCreate ==
    \A t \in Threads :
        /\ (th[t].pc = "done" /\ th[t].res.tag = "ok") =>
              /\ th[t].res.ordinal # 0
              /\ \E p \in DOMAIN SubLog(t) :
                    /\ SubLog(t)[p].op \in CreateOps(th[t].b.kind)
                    /\ SubLog(t)[p].ret = th[t].res.ordinal
                    /\ \A q \in DOMAIN SubLog(t) :
                          SubLog(t)[q].op \in CreateOps(th[t].b.kind) => q = p
        /\ \A k \in DOMAIN th[t].hist :
              th[t].hist[k].res.tag = "ok" => th[t].hist[k].res.ordinal # 0

\* A function pointer was built with success against the handle of a function
\* signature submitted before.
C26_Witness ==
    \E t \in Threads :
        /\ th[t].b.kind = "funcptr"
        /\ th[t].pc = "done"
        /\ th[t].res.tag = "ok"
        /\ Len(th[t].hist) = 2
        /\ th[t].hist[1].b.kind = "function"
        /\ th[t].hist[1].res = Ok(th[t].b.function_type)
        /\ SubLog(t)[1].ret = th[t].res.ordinal

\* ------------------------------------------- two callers, one catalog

\* The builders the two callers of SpecPar compose: a struct with a field and
\* a bitfield, an enum with a member, a function signature with a parameter.
ParConfig(t) ==
    \/ StructBuilder_new(t, "Node")
    \/ StructBuilder_field(t, "a", Existing(KnownOrdinal))
    \/ StructBuilder_bitfield(t, "f", U32(0, 0), U32(0, 4), TRUE)
    \/ th[t].hist = <<>> /\ EnumBuilder_new(t, "Color", 4)
    \/ EnumBuilder_member(t, "x", I64Small(100))
    \/ th[t].hist = <<>> /\ FunctionBuilder_new(t)
    \/ FunctionBuilder_param(t, "p", Existing(KnownOrdinal))

ParBuild(t) == StructBuild(t) \/ EnumBuild(t) \/ FunctionBuild(t)

ParNext == \E t \in Threads : ParConfig(t) \/ ParBuild(t)

\* Two threads, each composing and submitting one builder, their catalog
\* calls interleaved in any order; each call is answered as a whole.
SpecPar == Init /\ [][ParNext]_vars

\* The operations build() issues for a reference, before the call that uses it.
ResolveOps(ft, self) ==
    IF ft.tag = "Primitive" THEN <<"primitive_ordinal">>
    ELSE IF ft.tag = "ForwardRef" /\ ft.name = self THEN <<"create_pointer">>
    ELSE <<>>

\* The operations of the field loop of a struct submission from field k on.
RECURSIVE FieldOps(_, _)
FieldOps(b, k) ==
    IF k > Len(b.fields) THEN <<>>
    ELSE ResolveOps(b.fields[k].field_type, b.name)
         \o <<"add_field">>
         \o (IF ~b.is_union /\ ~b.fields[k].offset.some THEN <<"type_size">>
                                                       ELSE <<>>)
         \o FieldOps(b, k + 1)

\* The operations of the parameter loop of a function submission from k on.
RECURSIVE ParameterOps(_, _)
ParameterOps(b, k) ==
    IF k > Len(b.parameters) THEN <<>>
    ELSE ResolveOps(b.parameters[k].param_type, "")
         \o <<"add_parameter">>
         \o ParameterOps(b, k + 1)

\* The operations a submission of builder b issues, in program order, when no
\* call fails.
ProgramOrder(b) ==
    CASE b.kind = "struct" ->
            <<IF b.is_union THEN "create_union" ELSE "create_struct">>
            \o FieldOps(b, 1)
            \o [k \in 1..Len(b.bitfields) |-> "add_bitfield"]
            \o <<"finalize">>
      [] b.kind = "enum" ->
            <<"create_enum">>
            \o [k \in 1..Len(b.members) |-> "add_enum_member"]
            \o <<"finalize">>
      [] b.kind = "function" ->
            (IF b.return_type.some THEN ResolveOps(b.return_type.v, "") ELSE <<>>)
            \o <<"create_function">>
            \o ParameterOps(b, 1)
            \o <<"set_function_attributes">>
      [] OTHER -> <<>>

\* The ordinal the create call of thread t's submission returned, 0 if none.
ShellOf(t) ==
    LET creates == {p \in DOMAIN SubLog(t) :
                        SubLog(t)[p].op \in CreateOps(th[t].b.kind)}
    IN  IF creates = {} THEN 0 ELSE SubLog(t)[CHOOSE p \in creates : TRUE].ret

\* The shell ordinal the call e is aimed at.
OwnerOf(e) == IF e.op = "finalize" THEN e.args.ordinal ELSE e.args.owner

PopulatingOps ==
    {"add_field", "add_bitfield", "add_enum_member", "add_parameter",
     "set_function_attributes", "finalize"}

\* C27: when two builders are submitted by two threads against the same
\* catalog, under every interleaving of their catalog calls the calls of each
\* submission occur in its own program order, and every add_field,
\* add_bitfield, add_enum_member, add_parameter, set_function_attributes and
\* finalize call it issues is aimed at the shell ordinal its own create call
\* returned, never at the shell of the other submission.
C27_OwnShellUnderInterleaving ==
    \A t \in Threads :
        th[t].b.kind \in {"struct", "enum", "function"} =>
            LET L == SubLog(t)
                order == ProgramOrder(th[t].b)
            IN  /\ Len(L) <= Len(order)
                /\ \A p \in DOMAIN L :
                      /\ L[p].op = order[p]
                      /\ L[p].op \in PopulatingOps =>
                            /\ ShellOf(t) # 0
                            /\ OwnerOf(L[p]) = ShellOf(t)
                            /\ \A u \in Threads \ {t} : OwnerOf(L[p]) # ShellOf(u)

\* Both threads have a submission under way, each has created its shell, and
\* a call of one thread lies between two calls of the other in the log.
C27_Witness ==
    /\ \A t \in Threads :
          /\ ShellOf(t) # 0
          /\ \E p \in DOMAIN SubLog(t) : SubLog(t)[p].op \in PopulatingOps
    /\ \E i, j, k \in DOMAIN log :
          /\ i < j /\ j < k
          /\ log[i].t = log[k].t
          /\ log[j].t # log[i].t
          /\ log[k].op \in PopulatingOps
          /\ log[j].op \in PopulatingOps

\* C28: no submission passes type ordinal 0 as the referenced type of a
\* component: add_field is never called with field type ordinal 0,
\* add_parameter never with parameter type ordinal 0, create_array never with
\* element ordinal 0 and create_pointer never with target ordinal 0; when the
\* reference of a field, parameter, element or target resolves to 0, that
\* query is the last call of the submission and build() has returned an error.
C28_NoZeroReference ==
    /\ \A p \in DOMAIN log :
          /\ log[p].op \in {"add_field", "add_parameter"} => log[p].args.type # 0
          /\ log[p].op = "create_array" => log[p].args.element # 0
          /\ log[p].op = "create_pointer" => log[p].args.target # 0
    /\ \A t \in Threads :
          LET L == SubLog(t)
          IN  \A p \in DOMAIN L :
                ( /\ L[p].op \in {"primitive_ordinal", "create_pointer"}
                  /\ L[p].ret = 0
                  /\ \/ th[t].b.kind \in {"struct", "array", "pointer"}
                     \/ /\ th[t].b.kind = "function"
                        /\ CountOp(L, p, "create_function") = 1 )
                    => /\ p = Len(L)
                       /\ th[t].pc = "done"
                       /\ th[t].res.tag = "err"

\* A struct whose field is a primitive that the catalog resolved to 0: the
\* submission ended with an error and add_field was not called.
C28_Witness ==
    \E t \in Threads :
        /\ th[t].b.kind = "struct"
        /\ Len(th[t].b.fields) >= 1
        /\ th[t].pc = "done"
        /\ th[t].res.tag = "err"
        /\ Len(SubLog(t)) = 2
        /\ SubLog(t)[2].op = "primitive_ordinal"
        /\ SubLog(t)[2].ret = 0

\* Two primitive kinds that may share a basic-kind code: only Char and Int8.
DocumentedSharing(p, q) == {p, q} = {"Char", "Int8"}

\* C29: the table behind primitive_ordinal queries sends distinct primitive
\* kinds to distinct codes, except Char which shares the code of Int8: the
\* code an array or pointer builder sent for its primitive target is the code
\* of no other kind (Char and Int8 aside), so Bool and UInt64 go to the
\* catalog under different codes.
C29_DistinctCodes ==
    \A t \in Threads :
        ( /\ th[t].b.kind \in {"array", "pointer"}
          /\ TargetOf(th[t].b).tag = "Primitive"
          /\ Len(SubLog(t)) >= 1 )
            => \A q \in PrimitiveType :
                  to_ida_type(q) = SubLog(t)[1].args.code
                      => \/ q = TargetOf(th[t].b).prim
                         \/ DocumentedSharing(q, TargetOf(th[t].b).prim)

\* C30: for all 32-bit bit_offset and bit_width values, sums of 2^32 or more
\* included, the overlap check decides on the true range ends: validation of
\* a struct builder never aborts, and a builder with a bitfield whose true
\* range intersects the range of another bitfield gets the overlap error.
C30_TrueRangeEnds ==
    \A t \in Threads :
        (th[t].b.kind = "struct" /\ Submitted(t))
            => /\ th[t].pc # "panicked"
               /\ ( /\ SomeBitfieldsShareABit(th[t].b)
                    /\ th[t].b.name # ""
                    /\ ~SameNameTwice(th[t].b) )
                      => /\ th[t].pc = "done"
                         /\ th[t].res.msg = "bitfield overlaps"

=============================================================================
